---------------------------- MODULE Spec2Model ----------------------------
(***************************************************************************)
(* PoolMind: the pool ledger (poolmind/core/pool_state.py) and the trading *)
(* cycle that marks it (poolmind/main.py).                                 *)
(*                                                                         *)
(* Money is a Python float.  A float is modelled as a pair <<m, e>> that   *)
(* stands for m * 2^e, with m odd (or <<0, 0>> for zero), and every        *)
(* arithmetic operation rounds its exact result to the nearest value with  *)
(* MantissaBits significant bits, ties to even, as IEEE-754 does.  The     *)
(* significand is shorter than binary64's 53 bits so that the intermediate *)
(* integers stay within TLC's range; the rounding rule is the same.        *)
(***************************************************************************)
EXTENDS Integers, Sequences, FiniteSets, TLC

(***************************************************************************)
(* Bounds of the model.                                                    *)
(***************************************************************************)
MantissaBits == 10
\* the logical clock stops the run after this many operations
MaxTime == 5
\* at most this many seeded participants (INITIAL_PARTICIPANTS)
MaxSeed == 1
\* at most this many withdrawal requests per participant
MaxRequests == 2
\* at most this many cycle records
MaxCycles == 1
\* at most this many scans of the detector on its own
MaxScans == 1

(***************************************************************************)
(* Floating point.                                                         *)
(***************************************************************************)
Abs(n) == IF n < 0 THEN -n ELSE n

Zero == <<0, 0>>

\* the canonical pair of n * 2^e for an integer n: trailing zero bits go to the exponent
Norm(n, e) ==
    IF n = 0 THEN Zero
    ELSE LET a == Abs(n)
             t == CHOOSE t \in 0..29 : a % (2^t) = 0 /\ a % (2^(t+1)) # 0
         IN  <<n \div (2^t), e + t>>

\* n * 2^e rounded to MantissaBits significant bits, round-half-to-even
Fl(n, e) ==
    IF n = 0 THEN Zero
    ELSE LET a  == Abs(n)
             k  == CHOOSE k \in 0..(30 - MantissaBits) :
                       /\ a < 2^(MantissaBits + k)
                       /\ (k = 0 \/ a >= 2^(MantissaBits + k - 1))
             q  == a \div (2^k)
             r  == a % (2^k)
             up == k > 0 /\ (2 * r > 2^k \/ (2 * r = 2^k /\ q % 2 = 1))
             m  == IF up THEN q + 1 ELSE q
         IN  Norm(IF n < 0 THEN -m ELSE m, e + k)

\* the float of an integer literal
F(n) == Fl(n, 0)

Neg(x) == <<-x[1], x[2]>>

\* the number of bits of a positive integer
Bits(a) == CHOOSE k \in 1..30 : a < 2^k /\ a >= 2^(k - 1)

\* a nonzero float with its significand shifted up to the full MantissaBits bits
Full(x) ==
    LET s == MantissaBits - Bits(Abs(x[1])) IN <<x[1] * 2^s, x[2] - s>>

\* x + y: exact and then rounded; an operand below a quarter of the other's last
\* place cannot change the rounded sum
Add(x, y) ==
    IF x[1] = 0 THEN y
    ELSE IF y[1] = 0 THEN x
    ELSE LET fx == Full(x)
             fy == Full(y)
             e  == IF fx[2] < fy[2] THEN fx[2] ELSE fy[2]
         IN  IF fx[2] - fy[2] >= MantissaBits + 2 THEN x
             ELSE IF fy[2] - fx[2] >= MantissaBits + 2 THEN y
             ELSE Fl(fx[1] * 2^(fx[2] - e) + fy[1] * 2^(fy[2] - e), e)

Sub(x, y) == Add(x, Neg(y))

Mul(x, y) == Fl(x[1] * y[1], x[2] + y[2])

\* x / y for y # 0: MantissaBits + 2 bits of the quotient and a sticky bit, rounded
Div(x, y) ==
    IF x[1] = 0 THEN Zero
    ELSE LET fx == Full(x)
             fy == Full(y)
             a  == Abs(fx[1]) * 2^(MantissaBits + 2)
             b  == Abs(fy[1])
             n  == 2 * (a \div b) + (IF a % b = 0 THEN 0 ELSE 1)
             sg == IF (x[1] < 0) = (y[1] < 0) THEN n ELSE -n
         IN  Fl(sg, fx[2] - fy[2] - MantissaBits - 3)

\* x < y for x > 0 and y > 0
LtPos(x, y) ==
    LET fx == Full(x)
        fy == Full(y)
    IN  fx[2] < fy[2] \/ (fx[2] = fy[2] /\ fx[1] < fy[1])

\* exact comparisons
Lt(x, y) ==
    IF x[1] > 0 /\ y[1] > 0 THEN LtPos(x, y)
    ELSE IF x[1] < 0 /\ y[1] < 0 THEN LtPos(Neg(y), Neg(x))
    ELSE x[1] < y[1]

Leq(x, y) == ~Lt(y, x)

(***************************************************************************)
(* Inputs the operations are called with.                                  *)
(***************************************************************************)
\* INITIAL_POOL_VALUE
InitialPoolValues == {F(0), F(10)}

\* f"participant_{i+1}"
SeedIds == <<"participant_1", "participant_2", "participant_3">>

\* ids that callers pass to add_participant
NewIds == {"alice"}

\* ids that callers pass to request_withdrawal
CallerIds == {"participant_1", "alice"}

Investments == {F(7)}

Amounts == {F(6)}

NewValues == {F(0), F(15)}

\* asset dictionaries, in insertion order
AssetChoices ==
    { <<>>,
      <<[symbol |-> "BTC/USDT", value |-> F(4)], [symbol |-> "ETH/USDT", value |-> F(5)]>> }

\* what the detector, the two agents and the executor's random draws hand to one cycle
Opportunity ==
    [symbol |-> "BTC/USDT", buy_exchange |-> "binance", sell_exchange |-> "coinbase",
     buy_price |-> F(100), sell_price |-> F(102), spread_pct |-> F(2),
     max_volume_usd |-> F(1000)]

NoSlippage == <<Zero, Zero>>

Proposal == [strategy |-> [selected_opportunities |-> <<0>>, position_sizes |-> <<F(50)>>]]

\* what the risk oracle's HTTP call can come back with: a transport or HTTP
\* error, a message without a tool call, a tool call whose arguments are not
\* JSON, and a tool call carrying an assessment
RequestFailed == [error |-> "timeout"]

PlainReply == [choices |-> <<[message |-> [content |-> "looks risky"]]>>]

ToolCallReply(arguments) ==
    [choices |-> <<[message |-> [content |-> "",
        tool_calls |-> <<[function |-> [name |-> "risk_assessment",
                                        arguments |-> arguments]]>>]]>>]

Garbled == [json |-> FALSE]

\* a tool call of the strategy tool, and arguments that carry a strategy
StrategyCallReply(arguments) ==
    [choices |-> <<[message |-> [content |-> "",
        tool_calls |-> <<[function |-> [name |-> "recommend_strategy",
                                        arguments |-> arguments]]>>]]>>]

Recommended(strategy) == [json |-> TRUE, value |-> strategy]

Assessed(risk_score) ==
    [json |-> TRUE,
     value |-> [risk_score |-> risk_score, recommendation |-> "as scored"]]

RiskReplies ==
    { RequestFailed, PlainReply, ToolCallReply(Garbled),
      ToolCallReply(Assessed(9)), ToolCallReply(Assessed(3)) }

CycleInputs ==
    { [opportunities_found |-> 1, filtered_opportunities |-> <<Opportunity>>,
       strategy_reply |-> RequestFailed,
       risk_reply |-> ToolCallReply(Assessed(3)),
       slippage |-> <<NoSlippage>>] }
    \cup
    { [opportunities_found |-> 1, filtered_opportunities |-> <<Opportunity>>,
       strategy_reply |-> StrategyCallReply(Recommended(Proposal.strategy)),
       risk_reply |-> reply,
       slippage |-> <<NoSlippage>>] : reply \in RiskReplies }

(***************************************************************************)
(* State: a PoolState, the logical clock that time.time() reads, and the *)
(* last call with what it returned.                                        *)
(***************************************************************************)
VARIABLES
    initial_participants,   \* config.trading_config["initial_participants"]
    min_spread_threshold,   \* ArbitrageDetector.min_spread_threshold
    initial_pool_value,     \* PoolState.initial_pool_value
    current_pool_value,     \* PoolState.current_pool_value
    cash_reserve,           \* PoolState.cash_reserve
    participants,           \* PoolState.participants: id -> Participant
    participant_order,      \* the insertion order of that dict's keys
    assets,                 \* PoolState.assets, in insertion order
    last_update_time,       \* PoolState.last_update_time
    execution_history,      \* PoolMind.execution_history
    last_cycle_time,        \* PoolMind.last_cycle_time
    now,                    \* the clock
    is_running,             \* PoolMind.is_running
    tasks,                  \* the background tasks of start_system, each at its place in run
    engine,                 \* the monolith's TradingEngine (research.py)
    call                    \* the last call: its name, arguments and return value

ledger == <<initial_pool_value, current_pool_value, cash_reserve, participants,
            participant_order, assets, last_update_time>>

vars == <<initial_participants, min_spread_threshold, initial_pool_value, current_pool_value, cash_reserve, participants,
          participant_order, assets, last_update_time, execution_history,
          last_cycle_time, now, is_running, tasks, engine, call>>

orchestrator == <<execution_history, last_cycle_time>>

service == <<is_running, tasks, engine>>

\* a slip: the new participant credited with nothing
ParticipantUnfunded(investment) ==
    [initial_investment |-> investment,
     current_value |-> Zero,
     withdrawal_requests |-> <<>>]

\* dataclass Participant
Participant(investment) ==
    [initial_investment |-> investment,
     current_value |-> investment,
     withdrawal_requests |-> <<>>]

\* int / int in Python: a float
IntDiv(i, n) == Div(F(i), F(n))

\* the investment of the i-th seeded participant (i from 0)
SeedInvestment(pool_value, i, count) ==
    LET avg_investment == Div(pool_value, F(count))
        variation == Add(Div(F(4), F(5)), Mul(Div(F(2), F(5)), IntDiv(i, count)))
    IN  Mul(avg_investment, variation)

\* PoolState._initialize_participants
InitializeParticipants(pool_value, count) ==
    [id \in {SeedIds[i] : i \in 1..count} |->
        LET i == CHOOSE j \in 1..count : SeedIds[j] = id
        IN  Participant(SeedInvestment(pool_value, i - 1, count))]

\* MIN_SPREAD_THRESHOLD where the environment does not set it
DefaultMinSpreadThreshold == Div(F(1), F(2))

\* TradingEngine.__init__: the counters at zero, the loop not started
NewEngine ==
    [running |-> FALSE,
     metrics |-> [opportunities_detected |-> 0, opportunities_executed |-> 0,
                  fallback_activations |-> 0, error_count |-> 0],
     at |-> "idle",
     sleep |-> 0,
     elapsed |-> 0]

\* PoolMind.__init__ and PoolState.__init__ for a configured pool value and
\* number of seeded participants
Constructed(v, count) ==
    /\ is_running = FALSE
    /\ tasks = <<>>
    /\ engine = NewEngine
    /\ initial_participants = count
    /\ initial_pool_value = v
    /\ current_pool_value = v
    /\ cash_reserve = v
    /\ assets = <<>>
    /\ participants = IF count > 0 THEN InitializeParticipants(v, count)
                      ELSE [id \in {} |-> Participant(Zero)]
    /\ participant_order = SubSeq(SeedIds, 1, count)
    /\ last_update_time = 0
    /\ execution_history = <<>>
    /\ last_cycle_time = 0
    /\ now = 0
    /\ call = [op |-> "init"]

\* PoolMind.__init__: the ledger and the detector under the default threshold
Init ==
    /\ \E v \in InitialPoolValues, count \in 0..MaxSeed : Constructed(v, count)
    /\ min_spread_threshold = DefaultMinSpreadThreshold

\* time.time(): the clock moves with every call; the configuration never changes
Tick ==
    /\ now < MaxTime
    /\ now' = now + 1
    /\ UNCHANGED <<initial_participants, min_spread_threshold>>

\* PoolState.add_participant
AddParticipant(participant_id, investment) ==
    /\ Tick
    /\ UNCHANGED service
    /\ UNCHANGED orchestrator
    /\ IF participant_id \in DOMAIN participants
       THEN /\ call' = [op |-> "add_participant", participant_id |-> participant_id,
                        investment |-> investment, ret |-> FALSE]
            /\ UNCHANGED ledger
       ELSE /\ participants' = [id \in DOMAIN participants \cup {participant_id} |->
                                   IF id = participant_id THEN Participant(investment)
                                   ELSE participants[id]]
            /\ participant_order' = Append(participant_order, participant_id)
            /\ current_pool_value' = Add(current_pool_value, investment)
            /\ cash_reserve' = Add(cash_reserve, investment)
            /\ last_update_time' = now'
            /\ call' = [op |-> "add_participant", participant_id |-> participant_id,
                        investment |-> investment, ret |-> TRUE]
            /\ UNCHANGED <<initial_pool_value, assets>>

\* a slip: the request entered as completed
WithdrawalRequestCompleted(amount) == [amount |-> amount, status |-> "completed"]

\* the dict appended to withdrawal_requests
WithdrawalRequest(amount) == [amount |-> amount, status |-> "pending"]

\* a slip: the amount compared with what the participant put in
OverdrawnInvestment(participant, amount) == Lt(participant.initial_investment, amount)

\* the test that rejects a withdrawal larger than the participant's value
Overdrawn(participant, amount) == Lt(participant.current_value, amount)

\* PoolState.request_withdrawal
RequestWithdrawal(participant_id, amount) ==
    /\ Tick
    /\ UNCHANGED service
    /\ UNCHANGED orchestrator
    /\ IF participant_id \notin DOMAIN participants
       THEN /\ call' = [op |-> "request_withdrawal", participant_id |-> participant_id,
                        amount |-> amount, ret |-> FALSE]
            /\ UNCHANGED ledger
       ELSE IF Overdrawn(participants[participant_id], amount)
       THEN /\ call' = [op |-> "request_withdrawal", participant_id |-> participant_id,
                        amount |-> amount, ret |-> FALSE]
            /\ UNCHANGED ledger
       ELSE /\ Len(participants[participant_id].withdrawal_requests) < MaxRequests
            /\ participants' =
                  [participants EXCEPT ![participant_id].withdrawal_requests =
                      Append(@, WithdrawalRequest(amount))]
            /\ last_update_time' = now'
            /\ call' = [op |-> "request_withdrawal", participant_id |-> participant_id,
                        amount |-> amount, ret |-> TRUE]
            /\ UNCHANGED <<initial_pool_value, current_pool_value, cash_reserve,
                           participant_order, assets>>

\* a slip: the pending requests taken up last first
PendingReversed(participant) ==
    LET pending == SelectSeq([i \in 1..Len(participant.withdrawal_requests) |-> i],
                             LAMBDA i : participant.withdrawal_requests[i].status = "pending")
    IN  [k \in 1..Len(pending) |-> pending[Len(pending) + 1 - k]]

\* a slip: the completed requests taken up as well
PendingOrCompleted(participant) ==
    SelectSeq([i \in 1..Len(participant.withdrawal_requests) |-> i],
              LAMBDA i : participant.withdrawal_requests[i].status \in {"pending", "completed"})

\* the requests process_withdrawals takes up: the positions of those with status pending
PendingWithdrawals(participant) ==
    SelectSeq([i \in 1..Len(participant.withdrawal_requests) |-> i],
              LAMBDA i : participant.withdrawal_requests[i].status = "pending")

\* a slip: any cash at all taken to cover the amount
CashCoversAny(amount, cash) == Lt(Zero, cash)

\* the test that decides between completed and delayed
CashCovers(amount, cash) == Leq(amount, cash)

\* a slip: a completed withdrawal is not taken from the cash the next one is
\* decided against
ProcessOneUnpaid(s, participant_id, i) ==
    LET amount == s.participants[participant_id].withdrawal_requests[i].amount
    IN  IF Leq(amount, s.cash_reserve)
        THEN [s EXCEPT
                 !.current_pool_value = Sub(@, amount),
                 !.participants[participant_id].withdrawal_requests[i].status = "completed",
                 !.participants[participant_id].current_value = Sub(@, amount),
                 !.processed_withdrawals =
                     Append(@, [participant_id |-> participant_id, amount |-> amount,
                                status |-> "completed"])]
        ELSE [s EXCEPT
                 !.participants[participant_id].withdrawal_requests[i].status = "delayed",
                 !.processed_withdrawals =
                     Append(@, [participant_id |-> participant_id, amount |-> amount,
                                status |-> "delayed"])]

\* one withdrawal of the inner loop; s holds the pool fields and the list built so far
ProcessOne(s, participant_id, i) ==
    LET amount == s.participants[participant_id].withdrawal_requests[i].amount
    IN  IF CashCovers(amount, s.cash_reserve)
        THEN [cash_reserve |-> Sub(s.cash_reserve, amount),
              current_pool_value |-> Sub(s.current_pool_value, amount),
              participants |->
                  [s.participants EXCEPT
                      ![participant_id].withdrawal_requests[i].status = "completed",
                      ![participant_id].current_value = Sub(@, amount)],
              processed_withdrawals |->
                  Append(s.processed_withdrawals,
                         [participant_id |-> participant_id, amount |-> amount,
                          status |-> "completed"])]
        ELSE [s EXCEPT
                 !.participants[participant_id].withdrawal_requests[i].status = "delayed",
                 !.processed_withdrawals =
                     Append(@, [participant_id |-> participant_id, amount |-> amount,
                                status |-> "delayed"])]

\* the inner loop over one participant's pending withdrawals
RECURSIVE ProcessPending(_, _, _)
ProcessPending(s, participant_id, pending) ==
    IF pending = <<>> THEN s
    ELSE ProcessPending(ProcessOne(s, participant_id, Head(pending)),
                        participant_id, Tail(pending))

\* the outer loop over the participants, in the dict's order
RECURSIVE ProcessParticipants(_, _)
ProcessParticipants(s, ids) ==
    IF ids = <<>> THEN s
    ELSE ProcessParticipants(
             ProcessPending(s, Head(ids), PendingWithdrawals(s.participants[Head(ids)])),
             Tail(ids))

\* PoolState.process_withdrawals
ProcessWithdrawals ==
    LET s == ProcessParticipants(
                 [cash_reserve |-> cash_reserve,
                  current_pool_value |-> current_pool_value,
                  participants |-> participants,
                  processed_withdrawals |-> <<>>],
                 participant_order)
    IN  /\ Tick
        /\ UNCHANGED service
        /\ UNCHANGED orchestrator
        /\ cash_reserve' = s.cash_reserve
        /\ current_pool_value' = s.current_pool_value
        /\ participants' = s.participants
        /\ last_update_time' = now'
        /\ call' = [op |-> "process_withdrawals", ret |-> s.processed_withdrawals]
        /\ UNCHANGED <<initial_pool_value, participant_order, assets>>

\* sum(assets.values())
RECURSIVE SumValues(_)
SumValues(dict) ==
    IF dict = <<>> THEN Zero
    ELSE Add(SumValues(SubSeq(dict, 1, Len(dict) - 1)), dict[Len(dict)].value)

\* a slip: the operands of the subtraction exchanged
CashAfterAllocationSwapped(pool_value, total_assets_value) ==
    Sub(total_assets_value, pool_value)

\* the cash reserve that update_asset_allocation derives
CashAfterAllocation(pool_value, total_assets_value) == Sub(pool_value, total_assets_value)

\* PoolState.update_asset_allocation
UpdateAssetAllocation(new_assets) ==
    LET total_assets_value == SumValues(new_assets)
    IN  /\ Tick
        /\ UNCHANGED service
        /\ UNCHANGED orchestrator
        /\ assets' = new_assets
        /\ cash_reserve' = CashAfterAllocation(current_pool_value, total_assets_value)
        /\ last_update_time' = now'
        /\ call' = [op |-> "update_asset_allocation", assets |-> new_assets]
        /\ UNCHANGED <<initial_pool_value, current_pool_value, participants,
                       participant_order>>

\* a slip: the change of the pool added to every participant instead of the ratio applied
ScaledValueShifted(value, old_value, new_value) == Add(value, Sub(new_value, old_value))

\* a participant's value after a mark from old_value to new_value
ScaledValue(value, old_value, new_value) ==
    LET ratio == Div(new_value, old_value) IN Mul(value, ratio)

\* the participants after update_pool_value
MarkedParticipants(parts, old_value, new_value) ==
    IF Lt(Zero, old_value)
    THEN [id \in DOMAIN parts |->
             [parts[id] EXCEPT !.current_value = ScaledValue(@, old_value, new_value)]]
    ELSE parts

\* PoolState.update_pool_value
UpdatePoolValue(new_value) ==
    /\ Tick
    /\ UNCHANGED service
    /\ UNCHANGED orchestrator
    /\ current_pool_value' = new_value
    /\ participants' = MarkedParticipants(participants, current_pool_value, new_value)
    /\ last_update_time' = now'
    /\ call' = [op |-> "update_pool_value", new_value |-> new_value,
                old_value |-> current_pool_value]
    /\ UNCHANGED <<initial_pool_value, cash_reserve, participant_order, assets>>

\* execute_arbitrage, first part: the amount bought and the two prices after slippage
Fills(opportunity, position_size_usd, buy_slippage_pct, sell_slippage_pct) ==
    [opportunity |-> opportunity,
     position_size_usd |-> position_size_usd,
     asset_amount |-> Div(position_size_usd, opportunity.buy_price),
     actual_buy_price |->
         Mul(opportunity.buy_price, Add(F(1), Div(buy_slippage_pct, F(100)))),
     actual_sell_price |->
         Mul(opportunity.sell_price, Sub(F(1), Div(sell_slippage_pct, F(100))))]

\* execute_arbitrage, second part: what the two orders cost and bring
Settled(t) ==
    t @@ [cost_usd |-> Mul(t.asset_amount, t.actual_buy_price),
          revenue_usd |-> Mul(t.asset_amount, t.actual_sell_price)]

\* execute_arbitrage, third part: the profit
Profited(t) == t @@ [profit_usd |-> Sub(t.revenue_usd, t.cost_usd)]

\* execute_arbitrage, fourth part: the profit as a percentage of the cost
Rated(t) == t @@ [profit_pct |-> Mul(Div(t.profit_usd, t.cost_usd), F(100))]

\* a slip: the verdict taken from the revenue
JudgedByRevenue(t) == t @@ [success |-> Lt(Zero, t.revenue_usd)]

\* execute_arbitrage, last part: the verdict
Judged(t) == t @@ [success |-> Lt(Zero, t.profit_pct)]

\* ArbitrageExecutor.execute_arbitrage, with the two random draws given
ExecuteArbitrage(opportunity, position_size_usd, buy_slippage_pct, sell_slippage_pct) ==
    Judged(Rated(Profited(Settled(
        Fills(opportunity, position_size_usd, buy_slippage_pct, sell_slippage_pct)))))

\* the risk threshold of run_cycle
RiskThreshold == 7

\* the cap of the cycle history
HistoryCapacity == 100

\* strategy["position_sizes"][i] if i < len(strategy["position_sizes"]) else 0
PositionSize(strategy, i) ==
    IF i <= Len(strategy.position_sizes) THEN strategy.position_sizes[i] ELSE Zero

\* filtered_opportunities[opp_index]: Python counts a negative index from the end
OpportunityAt(filtered_opportunities, opp_index) ==
    IF opp_index >= 0 THEN filtered_opportunities[opp_index + 1]
    ELSE filtered_opportunities[Len(filtered_opportunities) + opp_index + 1]

\* a slip: the loop left after its first execution
ExecutedFirst(filtered_opportunities, strategy) ==
    LET todo == SelectSeq([i \in 1..Len(strategy.selected_opportunities) |-> i],
                    LAMBDA i : /\ strategy.selected_opportunities[i] < Len(filtered_opportunities)
                               /\ Lt(Zero, PositionSize(strategy, i)))
    IN  IF todo = <<>> THEN todo ELSE <<todo[1]>>

\* the positions of selected_opportunities (from 1) that the loop executes
Executed(filtered_opportunities, strategy) ==
    SelectSeq([i \in 1..Len(strategy.selected_opportunities) |-> i],
              LAMBDA i : /\ strategy.selected_opportunities[i] < Len(filtered_opportunities)
                         /\ Lt(Zero, PositionSize(strategy, i)))

\* the list executions that the loop builds
Executions(in) ==
    LET strategy == in.strategy_result.strategy
        todo == Executed(in.filtered_opportunities, strategy)
    IN  [k \in 1..Len(todo) |->
            ExecuteArbitrage(
                OpportunityAt(in.filtered_opportunities,
                              strategy.selected_opportunities[todo[k]]),
                PositionSize(strategy, todo[k]),
                in.slippage[todo[k]][1], in.slippage[todo[k]][2])]

\* sum(exec_result["profit_usd"] for exec_result in executions)
RECURSIVE TotalProfit(_)
TotalProfit(executions) ==
    IF executions = <<>> THEN Zero
    ELSE Add(TotalProfit(SubSeq(executions, 1, Len(executions) - 1)),
             executions[Len(executions)].profit_usd)

\* the pool value that run_cycle marks after its executions
CycleMark(pool_value, executions) == Add(pool_value, TotalProfit(executions))

\* a slip: the trim keeps the oldest records
RecordedOldest(history, cycle_result) ==
    LET h == Append(history, cycle_result)
    IN  IF Len(h) > HistoryCapacity THEN SubSeq(h, 1, HistoryCapacity) ELSE h

\* execution_history after the append and the trim to the last HistoryCapacity records
Recorded(history, cycle_result) ==
    LET h == Append(history, cycle_result)
    IN  IF Len(h) > HistoryCapacity
        THEN SubSeq(h, Len(h) - HistoryCapacity + 1, Len(h))
        ELSE h

\* LLMAgent.function_call, given what _call_groq_api returned
FunctionCall(response) ==
    IF "error" \in DOMAIN response
    THEN [error |-> response.error]
    ELSE IF response.choices = <<>> \/ "message" \notin DOMAIN response.choices[1]
    THEN [error |-> "Error parsing response"]
    ELSE LET message == response.choices[1].message
         IN  IF "tool_calls" \in DOMAIN message
             THEN [tool_calls |-> message.tool_calls,
                   content |-> IF "content" \in DOMAIN message
                               THEN message.content ELSE ""]
             ELSE [content |-> message.content, tool_calls |-> <<>>]

\* the assessment assess_risk falls back to when function calling fails
FallbackAssessment ==
    [risk_score |-> 5,
     recommendation |-> "Unable to properly assess risk due to error"]

\* assess_risk's try block: the first tool call is the risk_assessment tool
\* and json.loads accepts its arguments
Parsed(result) ==
    /\ result.tool_calls # <<>>
    /\ result.tool_calls[1].function.name = "risk_assessment"
    /\ result.tool_calls[1].function.arguments.json

\* RiskAssessmentAgent.assess_risk, given what _call_groq_api returned
AssessRisk(response) ==
    LET result == FunctionCall(response)
    IN  IF "error" \in DOMAIN result
        THEN [error |-> result.error]
        ELSE IF Parsed(result)
        THEN [assessment |-> result.tool_calls[1].function.arguments.value]
        ELSE [assessment |-> FallbackAssessment, raw_response |-> result.content]

\* the strategy generate_strategy falls back to when function calling fails
FallbackStrategy ==
    [selected_opportunities |-> <<>>, position_sizes |-> <<>>,
     risk_assessment |-> "Unable to assess risk due to error",
     reasoning |-> "Error generating strategy with function calling"]

\* generate_strategy's try block: the first tool call is the recommend_strategy
\* tool and json.loads accepts its arguments
ParsedStrategy(result) ==
    /\ result.tool_calls # <<>>
    /\ result.tool_calls[1].function.name = "recommend_strategy"
    /\ result.tool_calls[1].function.arguments.json

\* StrategyAgent.generate_strategy, given what _call_groq_api returned
GenerateStrategy(response) ==
    LET result == FunctionCall(response)
    IN  IF "error" \in DOMAIN result
        THEN [error |-> result.error]
        ELSE IF ParsedStrategy(result)
        THEN [strategy |-> result.tool_calls[1].function.arguments.value]
        ELSE [strategy |-> FallbackStrategy, raw_response |-> result.content]

\* the empty dict
EmptyDict == [k \in {} |-> 0]

\* run_cycle, step 4: risk_result.get("assessment", {})
RiskAssessment(risk_result) ==
    IF "assessment" \in DOMAIN risk_result THEN risk_result.assessment ELSE EmptyDict

\* run_cycle, step 5: risk_assessment.get("risk_score", 10)
RiskScore(risk_assessment) ==
    IF "risk_score" \in DOMAIN risk_assessment THEN risk_assessment.risk_score ELSE 10

\* a gate that lets every score through except the missing one
AcceptableBelowDefault(risk_assessment) ==
    RiskScore(risk_assessment) < 10

\* run_cycle, step 5: the risk is acceptable
Acceptable(risk_assessment) ==
    RiskScore(risk_assessment) <= RiskThreshold

\* a slip: the executor runs whatever the risk score
CycleExecutionsUngated(in, risk_assessment) == Executions(in)

\* run_cycle, steps 4 and 5: the executor runs only if the risk score allows it
CycleExecutions(in, risk_assessment) ==
    IF Acceptable(risk_assessment) THEN Executions(in) ELSE <<>>

\* run_cycle after the loop: the mark, the cycle result and the history
Conclude(in, risk_assessment, executions) ==
    LET new_pool_value == IF executions # <<>>
                          THEN CycleMark(current_pool_value, executions)
                          ELSE current_pool_value
        cycle_result ==
            [status |-> "completed",
             opportunities_found |-> in.opportunities_found,
             opportunities_filtered |-> Len(in.filtered_opportunities),
             strategy |-> in.strategy_result.strategy,
             risk_assessment |-> risk_assessment,
             executions |-> executions,
             total_pool_value |-> new_pool_value]
    IN  /\ IF executions # <<>>
           THEN /\ current_pool_value' = new_pool_value
                /\ participants' = MarkedParticipants(participants,
                                       current_pool_value, current_pool_value')
                /\ last_update_time' = now'
                /\ UNCHANGED <<initial_pool_value, cash_reserve,
                               participant_order, assets>>
           ELSE UNCHANGED ledger
        /\ execution_history' = Recorded(execution_history, cycle_result)
        /\ last_cycle_time' = now'
        /\ call' = [op |-> "run_cycle", strategy_reply |-> in.strategy_reply,
                    risk_reply |-> in.risk_reply, ret |-> cycle_result]

\* run_cycle from the risk step on
Assess(in, risk_assessment) ==
    Conclude(in, risk_assessment, CycleExecutions(in, risk_assessment))

\* run_cycle from the detector's lists on, with the strategy agent's result
Cycle(in) ==
    IF in.filtered_opportunities = <<>>
    THEN LET cycle_result ==
                 [status |-> "completed",
                  opportunities_found |-> in.opportunities_found,
                  opportunities_filtered |-> 0,
                  executions |-> <<>>,
                  total_pool_value |-> current_pool_value]
         IN  /\ execution_history' = Recorded(execution_history, cycle_result)
             /\ last_cycle_time' = now'
             /\ call' = [op |-> "run_cycle", ret |-> cycle_result]
             /\ UNCHANGED ledger
    ELSE IF "error" \in DOMAIN in.strategy_result
    THEN /\ call' = [op |-> "run_cycle", strategy_reply |-> in.strategy_reply,
                     ret |-> [status |-> "error",
                              error |-> in.strategy_result.error]]
         /\ UNCHANGED <<ledger, orchestrator>>
    ELSE Assess(in, RiskAssessment(AssessRisk(in.risk_reply)))

\* PoolMind.run_cycle
RunCycle(in) ==
    /\ Tick
    /\ UNCHANGED service
    /\ Len(execution_history) < MaxCycles
    /\ Cycle(in @@ [strategy_result |-> GenerateStrategy(in.strategy_reply)])

Next ==
    \/ \E id \in NewIds, inv \in Investments : AddParticipant(id, inv)
    \/ \E id \in CallerIds, amount \in Amounts : RequestWithdrawal(id, amount)
    \/ ProcessWithdrawals
    \/ \E a \in AssetChoices : UpdateAssetAllocation(a)
    \/ \E v \in NewValues : UpdatePoolValue(v)
    \/ \E in \in CycleInputs : RunCycle(in)

Spec == Init /\ [][Next]_vars

(***************************************************************************)
(* The detector (poolmind/core/arbitrage.py).  A snapshot is a dict of     *)
(* dicts; both are sequences here, in insertion order, because the scan    *)
(* iterates them in that order.                                            *)
(***************************************************************************)
\* the thresholds the detector is configured with (MIN_SPREAD_THRESHOLD)
MinSpreadThresholds == {DefaultMinSpreadThreshold, F(-1)}

\* one venue's entry of a symbol's dict
Quote(exchange, bid, ask, volume) ==
    [exchange |-> exchange,
     prices |-> [bid |-> F(bid), ask |-> F(ask), volume |-> F(volume)]]

\* the venue dicts a symbol is quoted with
Books ==
    { \* one venue only
      <<Quote("binance", 100, 101, 10)>>,
      \* crossed by about 2 %
      <<Quote("binance", 100, 101, 10), Quote("coinbase", 103, 104, 8)>>,
      \* crossed by about 1 %, the dearer venue stored first
      <<Quote("coinbase", 102, 103, 10), Quote("binance", 100, 101, 10)>>,
      \* three venues, one bid equal to another's ask
      <<Quote("binance", 100, 101, 10), Quote("kraken", 101, 102, 10),
        Quote("coinbase", 103, 104, 10)>>,
      \* a venue without a bid and without a volume, and one whose ask is 0
      <<[exchange |-> "binance", prices |-> [ask |-> F(100)]],
        [exchange |-> "coinbase", prices |-> [bid |-> F(102), ask |-> Zero, volume |-> F(10)]]>> }

Symbols == {"BTC/USDT", "ETH/USDT"}

\* the snapshots get_market_data hands to the scan: up to two symbols, in either order
Snapshots ==
    {<<>>}
        \cup {<<[symbol |-> sym, exchanges_data |-> b]>> : sym \in Symbols, b \in Books}
        \cup {<<[symbol |-> o[1], exchanges_data |-> b1], [symbol |-> o[2], exchanges_data |-> b2]>> :
                 o \in {<<"BTC/USDT", "ETH/USDT">>, <<"ETH/USDT", "BTC/USDT">>},
                 b1 \in Books, b2 \in Books}

\* the floors the filter is called with; the first of each is the default
MinProfitPcts == {Div(F(1), F(10)), F(1)}

MinVolumesUsd == {F(1000), Zero}

\* list.sort(key=..., reverse=...): stable, so elements with equal keys keep their
\* order; keys[i] is the key of list[i]
SortedBy(list, keys, reverse) ==
    LET before(j, i) == IF reverse THEN Lt(keys[i], keys[j]) ELSE Lt(keys[j], keys[i])
        place(i) == 1 + Cardinality({j \in 1..Len(list) :
                                        before(j, i) \/ (~before(i, j) /\ j < i)})
    IN  [k \in 1..Len(list) |-> list[CHOOSE i \in 1..Len(list) : place(i) = k]]

\* prices.get("volume", 0)
Volume(prices) == IF "volume" \in DOMAIN prices THEN prices.volume ELSE Zero

\* the tuples (exchange, price, volume) of the venues that quote the given side
Side(exchanges_data, side) ==
    LET quoted == SelectSeq(exchanges_data,
                            LAMBDA q : side \in DOMAIN q.prices /\ Lt(Zero, q.prices[side]))
    IN  [k \in 1..Len(quoted) |->
            [exchange |-> quoted[k].exchange, price |-> quoted[k].prices[side],
             volume |-> Volume(quoted[k].prices)]]

\* best_bids after its sort: highest bid first
BestBids(exchanges_data) ==
    LET bids == Side(exchanges_data, "bid")
    IN  SortedBy(bids, [i \in 1..Len(bids) |-> bids[i].price], TRUE)

\* best_asks after its sort: lowest ask first
BestAsks(exchanges_data) ==
    LET asks == Side(exchanges_data, "ask")
    IN  SortedBy(asks, [i \in 1..Len(asks) |-> asks[i].price], FALSE)

\* spread_pct of selling at sell_price what was bought at buy_price
SpreadPct(sell_price, buy_price) == Mul(Div(Sub(sell_price, buy_price), buy_price), F(100))

\* a slip: the buying venue's volume taken for the smaller one
MinVolumeBuy(sell_volume, buy_volume) == buy_volume

\* min(sell_volume, buy_volume)
MinVolume(sell_volume, buy_volume) ==
    IF Lt(buy_volume, sell_volume) THEN buy_volume ELSE sell_volume

\* the test that makes a pair of venues an opportunity
ExceedsThreshold(spread_pct, threshold) == Lt(threshold, spread_pct)

\* the ArbitrageOpportunity built for a bid and an ask of a symbol
OpportunityOf(symbol, bid, ask) ==
    [symbol |-> symbol,
     buy_exchange |-> ask.exchange,
     sell_exchange |-> bid.exchange,
     buy_price |-> ask.price,
     sell_price |-> bid.price,
     spread_pct |-> SpreadPct(bid.price, ask.price),
     max_volume_usd |-> Mul(MinVolume(bid.volume, ask.volume), ask.price)]

\* the opportunities the two nested loops append for one symbol
SymbolOpportunities(symbol, exchanges_data, threshold) ==
    LET bids == BestBids(exchanges_data)
        asks == BestAsks(exchanges_data)
        n == Len(asks)
        pairs == [k \in 1..(Len(bids) * n) |->
                     [bid |-> bids[((k - 1) \div n) + 1], ask |-> asks[((k - 1) % n) + 1]]]
        emitted == SelectSeq(pairs,
                       LAMBDA pr : /\ pr.bid.exchange # pr.ask.exchange
                                   /\ ExceedsThreshold(SpreadPct(pr.bid.price, pr.ask.price),
                                                       threshold))
    IN  [k \in 1..Len(emitted) |-> OpportunityOf(symbol, emitted[k].bid, emitted[k].ask)]

\* the list opportunities before its sort: the symbols in the order of the dict
RECURSIVE Found(_, _)
Found(market_data, threshold) ==
    IF market_data = <<>> THEN <<>>
    ELSE SymbolOpportunities(Head(market_data).symbol, Head(market_data).exchanges_data,
                             threshold)
             \o Found(Tail(market_data), threshold)

\* ArbitrageOpportunity.estimated_fees_pct: the literal 0.2
EstimatedFeesPct == Div(F(1), F(5))

\* ArbitrageOpportunity.profit_pct
ProfitPct(opp) == Sub(opp.spread_pct, EstimatedFeesPct)

\* a slip: the final sort left out
Unranked(opportunities) == opportunities

\* opportunities.sort(key=lambda x: x.profit_pct, reverse=True)
Ranked(opportunities) ==
    SortedBy(opportunities, [i \in 1..Len(opportunities) |-> ProfitPct(opportunities[i])], TRUE)

\* what scan_for_opportunities returns
Scan(market_data, threshold) == Ranked(Found(market_data, threshold))

\* a slip: an entry exactly at a floor dropped
AboveFloorsStrictly(opp, min_profit_pct, min_volume_usd) ==
    Lt(min_profit_pct, ProfitPct(opp)) /\ Lt(min_volume_usd, opp.max_volume_usd)

\* the test of the filter's list comprehension
AboveFloors(opp, min_profit_pct, min_volume_usd) ==
    Leq(min_profit_pct, ProfitPct(opp)) /\ Leq(min_volume_usd, opp.max_volume_usd)

\* what filter_opportunities returns
Filter(opportunities, min_profit_pct, min_volume_usd) ==
    SelectSeq(opportunities, LAMBDA opp : AboveFloors(opp, min_profit_pct, min_volume_usd))

\* ArbitrageDetector.scan_for_opportunities
ScanForOpportunities(market_data) ==
    /\ now < MaxScans
    /\ Tick
    /\ UNCHANGED service
    /\ call' = [op |-> "scan_for_opportunities", market_data |-> market_data,
                ret |-> Scan(market_data, min_spread_threshold)]
    /\ UNCHANGED <<ledger, orchestrator>>

\* ArbitrageDetector.filter_opportunities, called with the list the scan returned
FilterOpportunities(min_profit_pct, min_volume_usd) ==
    /\ call.op = "scan_for_opportunities"
    /\ call' = [op |-> "filter_opportunities", opportunities |-> call.ret,
                min_profit_pct |-> min_profit_pct, min_volume_usd |-> min_volume_usd,
                ret |-> Filter(call.ret, min_profit_pct, min_volume_usd)]
    /\ UNCHANGED <<ledger, orchestrator, service, now, initial_participants,
                   min_spread_threshold>>

\* PoolMind.__init__ with the detector under any configured threshold
DetectorInit ==
    /\ Constructed(F(10), 0)
    /\ min_spread_threshold \in MinSpreadThresholds

DetectorNext ==
    \/ \E market_data \in Snapshots : ScanForOpportunities(market_data)
    \/ \E min_profit_pct \in MinProfitPcts, min_volume_usd \in MinVolumesUsd :
           FilterOpportunities(min_profit_pct, min_volume_usd)

DetectorSpec == DetectorInit /\ [][DetectorNext]_vars

(***************************************************************************)
(* The cycle on its own (poolmind/main.py): one pool, and cycles over what *)
(* the strategy oracle, the risk oracle and the slippage draws can hand to *)
(* run_cycle.                                                              *)
(***************************************************************************)
\* INITIAL_POOL_VALUE of the pools the cycles run on
CyclePoolValues == {F(10), F(1000)}

\* an opportunity that passes the default filter and loses under full slippage
Marginal ==
    [symbol |-> "ETH/USDT", buy_exchange |-> "kraken", sell_exchange |-> "binance",
     buy_price |-> F(900), sell_price |-> F(903),
     spread_pct |-> SpreadPct(F(903), F(900)),
     max_volume_usd |-> F(1000)]

\* random.uniform(0, 0.2) at its upper end, for both draws
FullSlippage == <<Div(F(1), F(5)), Div(F(1), F(5))>>

\* the strategies the oracle's tool call can carry
Strategy(selected_opportunities, position_sizes) ==
    [selected_opportunities |-> selected_opportunities,
     position_sizes |-> position_sizes]

Strategies ==
    { Strategy(<<0>>, <<F(50)>>),
      Strategy(<<1, 0>>, <<F(50), F(50)>>),
      Strategy(<<0, 2>>, <<F(50), F(50)>>),
      Strategy(<<-1>>, <<F(50)>>),
      Strategy(<<0, 0>>, <<F(50), F(50)>>),
      Strategy(<<0, 1>>, <<F(50), F(-50)>>),
      Strategy(<<0, 1>>, <<F(50)>>) }

\* what the strategy oracle's HTTP call can come back with
StrategyReplies ==
    { RequestFailed, PlainReply, StrategyCallReply(Garbled) }
    \cup { StrategyCallReply(Recommended(strategy)) : strategy \in Strategies }

\* the draws of a cycle, one pair per selected opportunity
SlippageDraws ==
    { <<NoSlippage, NoSlippage>>, <<FullSlippage, NoSlippage>>,
      <<FullSlippage, FullSlippage>> }

CycleCases ==
    { [opportunities_found |-> 0, filtered_opportunities |-> <<>>,
       strategy_reply |-> RequestFailed,
       risk_reply |-> ToolCallReply(Assessed(3)),
       slippage |-> <<>>] }
    \cup
    { [opportunities_found |-> 2, filtered_opportunities |-> <<Opportunity, Marginal>>,
       strategy_reply |-> strategy_reply, risk_reply |-> risk_reply,
       slippage |-> slippage] :
         strategy_reply \in StrategyReplies,
         risk_reply \in {ToolCallReply(Assessed(3)), ToolCallReply(Assessed(9))},
         slippage \in SlippageDraws }

CycleInit ==
    /\ \E v \in CyclePoolValues, count \in 0..MaxSeed : Constructed(v, count)
    /\ min_spread_threshold = DefaultMinSpreadThreshold

CycleNext == \E in \in CycleCases : RunCycle(in)

CycleSpec == CycleInit /\ [][CycleNext]_vars

(***************************************************************************)
(* Cycles beside withdrawal requests: a pool whose participants ask for    *)
(* withdrawals, and cycles that have nothing to execute (and one that      *)
(* has).                                                                   *)
(***************************************************************************)
\* what the strategy oracle hands to a cycle that executes nothing: no tool
\* call, arguments that do not parse, an empty selection, sizes of zero
QuietReplies ==
    { PlainReply, StrategyCallReply(Garbled),
      StrategyCallReply(Recommended(Strategy(<<>>, <<>>))),
      StrategyCallReply(Recommended(Strategy(<<0, 1>>, <<Zero, Zero>>))) }

QuietCases ==
    { [opportunities_found |-> 0, filtered_opportunities |-> <<>>,
       strategy_reply |-> RequestFailed,
       risk_reply |-> ToolCallReply(Assessed(3)),
       slippage |-> <<>>] }
    \cup
    { [opportunities_found |-> 2, filtered_opportunities |-> <<Opportunity, Marginal>>,
       strategy_reply |-> strategy_reply,
       risk_reply |-> ToolCallReply(Assessed(3)),
       slippage |-> <<NoSlippage, NoSlippage>>] : strategy_reply \in QuietReplies }
    \cup
    { [opportunities_found |-> 2, filtered_opportunities |-> <<Opportunity, Marginal>>,
       strategy_reply |-> StrategyCallReply(Recommended(Strategy(<<0>>, <<F(50)>>))),
       risk_reply |-> risk_reply,
       slippage |-> <<NoSlippage, NoSlippage>>] :
         risk_reply \in {ToolCallReply(Assessed(9)), RequestFailed,
                         ToolCallReply(Assessed(3))} }

FrameInit ==
    /\ \E count \in 0..MaxSeed : Constructed(F(1000), count)
    /\ min_spread_threshold = DefaultMinSpreadThreshold

FrameNext ==
    \/ \E id \in CallerIds, amount \in Amounts : RequestWithdrawal(id, amount)
    \/ \E in \in QuietCases : RunCycle(in)

FrameSpec == FrameInit /\ [][FrameNext]_vars

(***************************************************************************)
(* Withdrawals of different sizes against a cash reserve that an asset     *)
(* allocation has reduced (PoolState on its own).                          *)
(***************************************************************************)
\* the amounts asked for, a larger and a smaller one
QueueAmounts == {F(6), F(3)}

\* an allocation that leaves less cash than the larger amount
QueueAssets == <<[symbol |-> "BTC/USDT", value |-> F(5)]>>

QueueInit ==
    /\ Constructed(F(10), MaxSeed)
    /\ min_spread_threshold = DefaultMinSpreadThreshold

QueueNext ==
    \/ \E id \in CallerIds, amount \in QueueAmounts : RequestWithdrawal(id, amount)
    \/ UpdateAssetAllocation(QueueAssets)
    \/ ProcessWithdrawals

QueueSpec == QueueInit /\ [][QueueNext]_vars

(***************************************************************************)
(* The executor on its own (ArbitrageExecutor in poolmind/core/arbitrage.py)*)
(***************************************************************************)
\* an opportunity whose spread is above the point where the confidence is capped
Wide ==
    [symbol |-> "BTC/USDT", buy_exchange |-> "kraken", sell_exchange |-> "coinbase",
     buy_price |-> F(100), sell_price |-> F(104),
     spread_pct |-> SpreadPct(F(104), F(100)),
     max_volume_usd |-> F(100)]

Opportunities == {Opportunity, Marginal, Wide}

\* pool values and settings of MAX_POSITION_SIZE_PCT that sizes are asked for
PoolValues == {F(0), F(500), F(1000), F(2000), F(20000)}

MaxPositionSizePcts == {Div(F(1), F(20)), Div(F(1), F(10)), F(1)}

\* sizes handed to the executor, and the values a slippage draw can take
PositionSizes == {F(1), F(50), F(1000)}

Slippages == {Zero, Div(F(1), F(10)), Div(F(1), F(5))}

\* Python's min(a, b)
Min(a, b) == IF Lt(b, a) THEN b ELSE a

\* a slip: the liquidity limit left out
PositionCapByPool(opportunity, pool_value, max_position_size_pct) ==
    Mul(pool_value, max_position_size_pct)

\* calculate_position_size: the smaller of the pool's cap and the liquidity
PositionCap(opportunity, pool_value, max_position_size_pct) ==
    Min(Mul(pool_value, max_position_size_pct), opportunity.max_volume_usd)

\* calculate_position_size: min(opportunity.spread_pct / 2, 1.0)
ConfidenceFactor(opportunity) == Min(Div(opportunity.spread_pct, F(2)), F(1))

\* ArbitrageExecutor.calculate_position_size
CalculatePositionSize(opportunity, pool_value, max_position_size_pct) ==
    Mul(PositionCap(opportunity, pool_value, max_position_size_pct),
        ConfidenceFactor(opportunity))

\* a call of calculate_position_size on an executor built with the given cap
CalculatePositionSizeCall(opportunity, pool_value, max_position_size_pct) ==
    /\ call' = [op |-> "calculate_position_size", opportunity |-> opportunity,
                pool_value |-> pool_value,
                max_position_size_pct |-> max_position_size_pct,
                ret |-> CalculatePositionSize(opportunity, pool_value,
                                              max_position_size_pct)]
    /\ UNCHANGED <<ledger, orchestrator, service, now, initial_participants,
                   min_spread_threshold>>

\* a call of execute_arbitrage with the two random draws given
ExecuteArbitrageCall(opportunity, position_size_usd, buy_slippage_pct, sell_slippage_pct) ==
    /\ call' = [op |-> "execute_arbitrage", opportunity |-> opportunity,
                position_size_usd |-> position_size_usd,
                buy_slippage_pct |-> buy_slippage_pct,
                sell_slippage_pct |-> sell_slippage_pct,
                ret |-> ExecuteArbitrage(opportunity, position_size_usd,
                                         buy_slippage_pct, sell_slippage_pct)]
    /\ UNCHANGED <<ledger, orchestrator, service, now, initial_participants,
                   min_spread_threshold>>

ExecutorInit ==
    /\ Constructed(F(10), 0)
    /\ min_spread_threshold = DefaultMinSpreadThreshold

ExecutorNext ==
    \/ \E opportunity \in Opportunities, pool_value \in PoolValues,
          max_position_size_pct \in MaxPositionSizePcts :
           CalculatePositionSizeCall(opportunity, pool_value, max_position_size_pct)
    \/ \E opportunity \in Opportunities, position_size_usd \in PositionSizes,
          buy_slippage_pct \in Slippages, sell_slippage_pct \in Slippages :
           ExecuteArbitrageCall(opportunity, position_size_usd,
                                buy_slippage_pct, sell_slippage_pct)

ExecutorSpec == ExecutorInit /\ [][ExecutorNext]_vars

(***************************************************************************)
(* The rule-based fallback of the monolith (PoolAwareStrategyGenerator in  *)
(* research.py).                                                           *)
(***************************************************************************)
\* the monolith's ArbitrageOpportunity, as reason_node builds it: the k-th
\* entry of a list has its own symbol and venues
Venues ==
    <<[symbol |-> "BTC/USDT", buy_exchange |-> "binance", sell_exchange |-> "coinbase"],
      [symbol |-> "BTC/USDT", buy_exchange |-> "coinbase", sell_exchange |-> "kraken"],
      [symbol |-> "ETH/USDT", buy_exchange |-> "binance", sell_exchange |-> "coinbase"],
      [symbol |-> "ETH/USDT", buy_exchange |-> "coinbase", sell_exchange |-> "kraken"],
      [symbol |-> "ADA/USDT", buy_exchange |-> "binance", sell_exchange |-> "coinbase"],
      [symbol |-> "ADA/USDT", buy_exchange |-> "coinbase", sell_exchange |-> "kraken"]>>

Observed(spreads) ==
    [k \in 1..Len(spreads) |->
        Venues[k] @@ [spread_percent |-> F(spreads[k]), volume_available |-> F(10000)]]

\* the spread_percent values of the lists the fallback is called with
SpreadLists ==
    UNION {[1..n -> 1..3] : n \in 1..3}
        \cup {<<1, 2, 3, 4, 5, 6>>, <<3, 1, 3, 2, 1, 2>>}

\* pool_state['total_value']
TotalValues == {F(5000), F(10000), F(50000), F(100000), F(1000000)}

\* a slip: the conservative count for every pool
MaxOpportunitiesOne(pool_size) == 1

\* _fallback_strategy: max_opportunities
MaxOpportunities(pool_size) ==
    IF Lt(pool_size, F(10000)) THEN 1
    ELSE IF Lt(pool_size, F(100000)) THEN 3
    ELSE 5

\* _fallback_strategy: max_position_pct
MaxPositionPct(pool_size) ==
    IF Lt(pool_size, F(10000)) THEN Div(F(1), F(50))
    ELSE IF Lt(pool_size, F(100000)) THEN Div(F(1), F(20))
    ELSE Div(F(1), F(10))

\* sorted(opportunities, key=lambda x: x.spread_percent, reverse=True)[:max_opportunities]
SelectedOps(opportunities, max_opportunities) ==
    LET sorted_ops == SortedBy(opportunities,
                          [i \in 1..Len(opportunities) |-> opportunities[i].spread_percent],
                          TRUE)
    IN  SubSeq(sorted_ops, 1,
               IF max_opportunities < Len(sorted_ops) THEN max_opportunities
               ELSE Len(sorted_ops))

\* opportunities.index(op), counted from 0
IndexOf(opportunities, op) ==
    (CHOOSE i \in 1..Len(opportunities) :
        /\ opportunities[i] = op
        /\ \A j \in 1..(i - 1) : opportunities[j] # op) - 1

\* the strategy built from the selection and the size of one position
Equal(opportunities, selected_ops, position_size) ==
    [selected_opportunities |->
         [k \in 1..Len(selected_ops) |-> IndexOf(opportunities, selected_ops[k])],
     position_sizes |-> [k \in 1..Len(selected_ops) |-> position_size],
     risk_assessment |-> "MEDIUM",
     execution_order |-> [k \in 1..Len(selected_ops) |-> k - 1],
     fallback |-> TRUE]

\* the size of one position
EqualShare(pool_size, max_position_pct, count) ==
    Div(Mul(pool_size, max_position_pct), F(count))

\* PoolAwareStrategyGenerator._fallback_strategy for a non-empty list
PoolAwareFallbackStrategy(pool_size, selected_ops, opportunities) ==
    Equal(opportunities, selected_ops,
          EqualShare(pool_size, MaxPositionPct(pool_size), Len(selected_ops)))

\* a call of _fallback_strategy
FallbackStrategyCall(total_value, opportunities) ==
    /\ call' = [op |-> "_fallback_strategy", total_value |-> total_value,
                opportunities |-> opportunities,
                ret |-> PoolAwareFallbackStrategy(total_value,
                            SelectedOps(opportunities, MaxOpportunities(total_value)),
                            opportunities)]
    /\ UNCHANGED <<ledger, orchestrator, service, now, initial_participants,
                   min_spread_threshold>>

FallbackInit ==
    /\ Constructed(F(10), 0)
    /\ min_spread_threshold = DefaultMinSpreadThreshold

FallbackNext ==
    \E total_value \in TotalValues, spreads \in SpreadLists :
        FallbackStrategyCall(total_value, Observed(spreads))

FallbackSpec == FallbackInit /\ [][FallbackNext]_vars

(***************************************************************************)
(* The cycle history on its own (the last lines of PoolMind.run_cycle and  *)
(* PoolMind.get_status): cycles that find nothing, enough of them to fill  *)
(* the history past its capacity.                                          *)
(***************************************************************************)
\* the cycles of a history run: a few more than the history holds
MaxRecords == HistoryCapacity + MaxCycles + 3

\* the number of records get_status reports
RecentCount == 5

\* self.execution_history[-5:] if self.execution_history else []
RecentExecutions(history) ==
    IF Len(history) > RecentCount
    THEN SubSeq(history, Len(history) - RecentCount + 1, Len(history))
    ELSE history

\* PoolMind.get_status (the pool metrics are left out)
GetStatus ==
    /\ call' = [op |-> "get_status",
                ret |-> [is_running |-> is_running,
                         last_cycle_time |-> last_cycle_time,
                         execution_count |-> Len(execution_history),
                         recent_executions |-> RecentExecutions(execution_history)]]
    /\ UNCHANGED <<ledger, orchestrator, service, now, initial_participants,
                   min_spread_threshold>>

\* a run_cycle that finds no opportunity, its record carrying the cycle_id
\* (int(cycle_start_time)); the clock here counts the cycles
QuietCycle ==
    LET cycle_result ==
            [cycle_id |-> now,
             status |-> "completed",
             opportunities_found |-> 0,
             opportunities_filtered |-> 0,
             executions |-> <<>>,
             total_pool_value |-> current_pool_value]
    IN  /\ now < MaxRecords
        /\ now' = now + 1
        /\ execution_history' = Recorded(execution_history, cycle_result)
        /\ last_cycle_time' = now'
        /\ call' = [op |-> "run_cycle", ret |-> cycle_result]
        /\ UNCHANGED <<ledger, service, initial_participants, min_spread_threshold>>

HistoryInit ==
    /\ Constructed(F(10), 0)
    /\ min_spread_threshold = DefaultMinSpreadThreshold

HistoryNext ==
    \/ QuietCycle
    \/ GetStatus

HistorySpec == HistoryInit /\ [][HistoryNext]_vars

(***************************************************************************)
(* The service (api_local_server.py over PoolMind.run and PoolMind.stop):  *)
(* the requests and the steps of the background tasks, interleaved at the  *)
(* points where the event loop can switch.  A task waits to begin after    *)
(* start_system has answered, and it sleeps between its cycles; run_cycle  *)
(* itself is never suspended (the collector's coroutine does not wait), so *)
(* a cycle is one step.                                                    *)
(***************************************************************************)
\* the background tasks that start_system may add in one run
MaxTasks == 2

\* a proposal whose tool call left the sizes out
Unsized == [selected_opportunities |-> <<0>>]

\* what a cycle of the service is handed: nothing to trade, a strategy call
\* that fails, and a proposal without sizes
LoopCases ==
    { [opportunities_found |-> 0, filtered_opportunities |-> <<>>,
       strategy_reply |-> RequestFailed,
       risk_reply |-> ToolCallReply(Assessed(3)),
       slippage |-> <<>>],
      [opportunities_found |-> 1, filtered_opportunities |-> <<Opportunity>>,
       strategy_reply |-> RequestFailed,
       risk_reply |-> ToolCallReply(Assessed(3)),
       slippage |-> <<NoSlippage>>],
      [opportunities_found |-> 1, filtered_opportunities |-> <<Opportunity>>,
       strategy_reply |-> StrategyCallReply(Recommended(Unsized)),
       risk_reply |-> ToolCallReply(Assessed(3)),
       slippage |-> <<NoSlippage>>] }

\* run_cycle raises KeyError at strategy["position_sizes"]: the risk is
\* acceptable, an index is in range and the strategy has no sizes
Raises(in) ==
    /\ in.filtered_opportunities # <<>>
    /\ "error" \notin DOMAIN in.strategy_result
    /\ Acceptable(RiskAssessment(AssessRisk(in.risk_reply)))
    /\ "position_sizes" \notin DOMAIN in.strategy_result.strategy
    /\ \E i \in 1..Len(in.strategy_result.strategy.selected_opportunities) :
           in.strategy_result.strategy.selected_opportunities[i]
               < Len(in.filtered_opportunities)

\* PoolMind.run, one turn of its while loop for task t: the cycle, then the
\* sleep; an exception of the cycle leaves the loop through except and finally
Turn(t, in) ==
    /\ Tick
    /\ UNCHANGED engine
    /\ IF Raises(in)
       THEN /\ is_running' = FALSE
            /\ tasks' = [tasks EXCEPT ![t] = "done"]
            /\ call' = [op |-> "run_cycle", strategy_reply |-> in.strategy_reply,
                        raised |-> "KeyError"]
            /\ UNCHANGED <<ledger, orchestrator>>
       ELSE /\ Cycle(in)
            /\ is_running' = TRUE
            /\ tasks' = [tasks EXCEPT ![t] = "sleep"]

\* run_poolmind: the background task begins, PoolMind.run sets the flag and
\* runs its first cycle
RunPoolmind(t, in) ==
    /\ tasks[t] = "queued"
    /\ Turn(t, in @@ [strategy_result |-> GenerateStrategy(in.strategy_reply)])

\* PoolMind.run after asyncio.sleep: the next cycle while the flag is set
Resume(t, in) ==
    /\ tasks[t] = "sleep"
    /\ is_running
    /\ Turn(t, in @@ [strategy_result |-> GenerateStrategy(in.strategy_reply)])

\* PoolMind.run after asyncio.sleep with the flag cleared: the loop ends
\* and finally clears the flag
Exit(t) ==
    /\ tasks[t] = "sleep"
    /\ ~is_running
    /\ is_running' = FALSE
    /\ tasks' = [tasks EXCEPT ![t] = "done"]
    /\ UNCHANGED <<ledger, orchestrator, engine, now, call, initial_participants,
                   min_spread_threshold>>

\* POST /start
StartSystem ==
    /\ IF is_running
       THEN /\ call' = [op |-> "start_system",
                        ret |-> "PoolMind system is already running"]
            /\ UNCHANGED tasks
       ELSE /\ Len(tasks) < MaxTasks
            /\ tasks' = Append(tasks, "queued")
            /\ call' = [op |-> "start_system", ret |-> "PoolMind system started"]
    /\ UNCHANGED <<ledger, orchestrator, is_running, engine, now,
                   initial_participants, min_spread_threshold>>

\* POST /stop, with PoolMind.stop
StopSystem ==
    /\ IF ~is_running
       THEN /\ call' = [op |-> "stop_system", ret |-> "PoolMind system is not running"]
            /\ UNCHANGED is_running
       ELSE /\ is_running' = FALSE
            /\ call' = [op |-> "stop_system", ret |-> "PoolMind system stopped"]
    /\ UNCHANGED <<ledger, orchestrator, tasks, engine, now,
                   initial_participants, min_spread_threshold>>

\* run_single_cycle once the flag has let it through
SingleCycle(in) ==
    /\ Tick
    /\ IF Raises(in)
       THEN /\ call' = [op |-> "run_single_cycle", status_code |-> 500]
            /\ UNCHANGED <<ledger, orchestrator>>
       ELSE Cycle(in)

\* POST /run-cycle
RunSingleCycle(in) ==
    /\ UNCHANGED service
    /\ IF is_running
       THEN /\ call' = [op |-> "run_single_cycle", status_code |-> 400]
            /\ UNCHANGED <<ledger, orchestrator, now, initial_participants,
                           min_spread_threshold>>
       ELSE SingleCycle(in @@ [strategy_result |-> GenerateStrategy(in.strategy_reply)])

LoopInit ==
    /\ Constructed(F(10), 0)
    /\ min_spread_threshold = DefaultMinSpreadThreshold

LoopNext ==
    \/ StartSystem
    \/ StopSystem
    \/ \E in \in LoopCases : RunSingleCycle(in)
    \/ \E t \in DOMAIN tasks, in \in LoopCases : RunPoolmind(t, in)
    \/ \E t \in DOMAIN tasks, in \in LoopCases : Resume(t, in)
    \/ \E t \in DOMAIN tasks : Exit(t)

LoopSpec == LoopInit /\ [][LoopNext]_vars

(***************************************************************************)
(* The circuit breaker of the monolith (TradingEngine in research.py) as a *)
(* function of the counters and the pool value it reads.                   *)
(***************************************************************************)
\* the number of operations the error rate is judged from
MinOperations == 10

\* the literals 0.15 (error rate, drawdown) and 0.3 (fallback rate)
ErrorRateLimit == Div(F(15), F(100))

FallbackRateLimit == Div(F(3), F(10))

DrawdownLimit == Div(F(15), F(100))

\* the first test: the error rate over the counted operations
ErrorRateHigh(metrics) ==
    /\ metrics.opportunities_detected + metrics.opportunities_executed > MinOperations
    /\ Lt(ErrorRateLimit,
          Div(F(metrics.error_count),
              F(metrics.opportunities_detected + metrics.opportunities_executed)))

\* the second test: fallback activations per execution
FallbackRateHigh(metrics) ==
    /\ metrics.opportunities_executed > 0
    /\ Lt(FallbackRateLimit,
          Div(F(metrics.fallback_activations), F(metrics.opportunities_executed)))

\* the third test: the drawdown of the pool from INITIAL_POOL_VALUE
DrawdownHigh(initial_value, total_value) ==
    Lt(DrawdownLimit, Div(Sub(initial_value, total_value), initial_value))

\* TradingEngine._should_trigger_circuit_breaker
ShouldTriggerCircuitBreaker(metrics, initial_value, total_value) ==
    \/ ErrorRateHigh(metrics)
    \/ FallbackRateHigh(metrics)
    \/ DrawdownHigh(initial_value, total_value)

\* the counters and pool values the breaker is evaluated on
DetectedCounts == {0, 9, 10, 11}

ExecutedCounts == {0, 1, 4}

FallbackActivations == {0, 1, 2}

ErrorCounts == {0, 1, 2}

EngineInitialValue == 1000

EngineTotalValues == {1000, 850, 840}

\* a call of _should_trigger_circuit_breaker on an engine with these counters
\* and this pool value
ShouldTriggerCall(metrics, total_value) ==
    /\ call' = [op |-> "_should_trigger_circuit_breaker",
                metrics |-> metrics,
                initial_value |-> EngineInitialValue,
                total_value |-> total_value,
                ret |-> ShouldTriggerCircuitBreaker(metrics, F(EngineInitialValue),
                                                    F(total_value))]
    /\ UNCHANGED <<ledger, orchestrator, service, now, initial_participants,
                   min_spread_threshold>>

BreakerInit ==
    /\ Constructed(F(10), 0)
    /\ min_spread_threshold = DefaultMinSpreadThreshold

BreakerNext ==
    \E detected \in DetectedCounts, executed \in ExecutedCounts,
       fallbacks \in FallbackActivations, errors \in ErrorCounts,
       total_value \in EngineTotalValues :
        ShouldTriggerCall([opportunities_detected |-> detected,
                           opportunities_executed |-> executed,
                           fallback_activations |-> fallbacks,
                           error_count |-> errors],
                          total_value)

BreakerSpec == BreakerInit /\ [][BreakerNext]_vars

(***************************************************************************)
(* The trading loop of the monolith (TradingEngine.start_trading).  The    *)
(* engine is at "idle" before start_trading, at "loop" at the head of the  *)
(* while, at "waiting" or "paused" inside one of the two sleeps and at     *)
(* "stopped" after the loop.  sleep is what remains of the running sleep,  *)
(* elapsed the time spent since it began (counted up to the cool-down).    *)
(***************************************************************************)
\* the cap of each counter of the metrics
MaxCounted == 2

\* asyncio.sleep(300) after the breaker tripped
CoolDown == 300

\* CYCLE_INTERVAL
CycleInterval == 30

\* the durations of a cycle and the steps in which time is seen to pass
CycleTimes == {0, 40}

Lapses == {30, 150}

\* a slip: the loop sleeps the cycle interval whether the breaker tripped or not
SleepWithoutCoolDown(tripped, cycle_time) ==
    IF CycleInterval > cycle_time THEN CycleInterval - cycle_time ELSE 0

\* the sleep after a cycle: the cool-down if the breaker tripped, else
\* max(0, cycle_interval - cycle_time)
Sleep(tripped, cycle_time) ==
    IF tripped THEN CoolDown
    ELSE IF CycleInterval > cycle_time THEN CycleInterval - cycle_time ELSE 0

\* a counter after a cycle added to it, kept within the cap
Counted(count, more) ==
    IF count + more <= MaxCounted THEN count + more ELSE count

\* the metrics after a cycle that detected, executed, fell back and failed
\* this many times
CycleMetrics(metrics, detected, executed, fallbacks, errors) ==
    [opportunities_detected |-> Counted(metrics.opportunities_detected, detected),
     opportunities_executed |-> Counted(metrics.opportunities_executed, executed),
     fallback_activations |-> Counted(metrics.fallback_activations, fallbacks),
     error_count |-> Counted(metrics.error_count, errors)]

\* the engine after a cycle, given the breaker's verdict on the new metrics
AfterCycle(metrics, tripped, cycle_time) ==
    [engine EXCEPT !.metrics = metrics,
                   !.at = IF tripped THEN "paused" ELSE "waiting",
                   !.sleep = Sleep(tripped, cycle_time),
                   !.elapsed = 0]

\* TradingEngine.start_trading up to the head of the loop
StartTrading ==
    /\ engine.at = "idle"
    /\ engine' = [engine EXCEPT !.running = TRUE, !.at = "loop"]
    /\ UNCHANGED <<ledger, orchestrator, is_running, tasks, now, call,
                   initial_participants, min_spread_threshold>>

\* one turn of the while loop: run_trading_cycle, the breaker, and the
\* sleep that is begun; the pool_state of the engine keeps its initial value
TradingCycle(detected, executed, fallbacks, errors, cycle_time) ==
    LET metrics == CycleMetrics(engine.metrics, detected, executed, fallbacks, errors)
        tripped == ShouldTriggerCircuitBreaker(metrics, F(EngineInitialValue),
                                               F(EngineInitialValue))
    IN  /\ engine.at = "loop"
        /\ engine.running
        /\ engine' = AfterCycle(metrics, tripped, cycle_time)
        /\ call' = [op |-> "run_trading_cycle", tripped |-> tripped]
        /\ UNCHANGED <<ledger, orchestrator, is_running, tasks, now,
                       initial_participants, min_spread_threshold>>

\* time passes while the loop sleeps
Elapse(lapse) ==
    /\ engine.at \in {"waiting", "paused"}
    /\ engine.sleep > 0
    /\ engine' = [engine EXCEPT
                     !.sleep = IF engine.sleep > lapse THEN engine.sleep - lapse ELSE 0,
                     !.elapsed = IF engine.elapsed + lapse < CoolDown
                                 THEN engine.elapsed + lapse ELSE CoolDown]
    /\ UNCHANGED <<ledger, orchestrator, is_running, tasks, now, call,
                   initial_participants, min_spread_threshold>>

\* asyncio.sleep returns: the loop is back at its head
Wake ==
    /\ engine.at \in {"waiting", "paused"}
    /\ engine.sleep = 0
    /\ engine' = [engine EXCEPT !.at = "loop"]
    /\ UNCHANGED <<ledger, orchestrator, is_running, tasks, now, call,
                   initial_participants, min_spread_threshold>>

\* the while loop ends because running was cleared
StopLoop ==
    /\ engine.at = "loop"
    /\ ~engine.running
    /\ engine' = [engine EXCEPT !.at = "stopped"]
    /\ UNCHANGED <<ledger, orchestrator, is_running, tasks, now, call,
                   initial_participants, min_spread_threshold>>

\* TradingEngine.stop_trading
StopTrading ==
    /\ engine.running
    /\ engine' = [engine EXCEPT !.running = FALSE]
    /\ UNCHANGED <<ledger, orchestrator, is_running, tasks, now, call,
                   initial_participants, min_spread_threshold>>

EngineInit ==
    /\ Constructed(F(10), 0)
    /\ min_spread_threshold = DefaultMinSpreadThreshold

EngineNext ==
    \/ StartTrading
    \/ \E detected \in 0..1, executed \in 0..1, fallbacks \in 0..1, errors \in 0..1,
          cycle_time \in CycleTimes :
           /\ executed <= detected
           /\ TradingCycle(detected, executed, fallbacks, errors, cycle_time)
    \/ \E lapse \in Lapses : Elapse(lapse)
    \/ Wake
    \/ StopLoop
    \/ StopTrading

\* time passes, and the event loop resumes a coroutine whose sleep is over
EngineSpec ==
    /\ EngineInit
    /\ [][EngineNext]_vars
    /\ WF_vars(\E lapse \in Lapses : Elapse(lapse))
    /\ WF_vars(Wake)


(***************************************************************************)
(* The reason step of the trading engine: TradingEngine.reason_node calls  *)
(* PoolAwareStrategyGenerator.generate_strategy, which asks the oracle and *)
(* falls back on the rule-based strategy when the oracle gives nothing     *)
(* usable.                                                                 *)
(***************************************************************************)

\* what the oracle call of generate_strategy comes to: no response, a
\* response that is not JSON, an exception on the way, or a parsed strategy
OracleReplies == {"none", "unparsed", "raised", "strategy"}

\* the spread_percent values of the lists the reason step is given: the
\* empty list of a scan that found nothing, and lists of one to three
ReasonLists == {<<>>, <<2>>, <<1, 3>>, <<3, 1, 2>>}

\* the strategy the oracle's JSON is parsed into
OracleStrategy ==
    [selected_opportunities |-> <<>>, position_sizes |-> <<>>,
     risk_assessment |-> "LOW", execution_order |-> <<>>]

\* _fallback_strategy as it ends: the division by len(selected_ops) is
\* evaluated before the list is repeated, and raises for an empty selection
FallbackStrategyOutcome(total_value, opportunities) ==
    LET selected_ops == SelectedOps(opportunities, MaxOpportunities(total_value))
    IN  IF Len(selected_ops) = 0
        THEN [raised |-> "ZeroDivisionError"]
        ELSE [ret |-> PoolAwareFallbackStrategy(total_value, selected_ops, opportunities)]

\* PoolAwareStrategyGenerator.generate_strategy: the parsed strategy, or the
\* fallback; an exception inside the try block, the fallback's own included,
\* is answered by the fallback once more, outside the try block
PoolAwareGenerateStrategy(reply, total_value, opportunities) ==
    IF reply = "strategy" THEN [ret |-> OracleStrategy]
    ELSE FallbackStrategyOutcome(total_value, opportunities)

\* TradingEngine.reason_node: the decision and the count of fallbacks, or
\* the count of errors when generate_strategy raised
ReasonNode(reply, total_value, opportunities) ==
    LET outcome == PoolAwareGenerateStrategy(reply, total_value, opportunities)
    IN  /\ IF "raised" \in DOMAIN outcome
           THEN /\ engine' = [engine EXCEPT
                                 !.metrics.error_count = Counted(@, 1)]
                /\ call' = [op |-> "reason_node", reply |-> reply,
                            total_value |-> total_value,
                            opportunities |-> opportunities,
                            decisions |-> <<>>, raised |-> outcome.raised]
           ELSE /\ engine' = [engine EXCEPT
                                 !.metrics.fallback_activations =
                                     IF "fallback" \in DOMAIN outcome.ret
                                     THEN Counted(@, 1) ELSE @]
                /\ call' = [op |-> "reason_node", reply |-> reply,
                            total_value |-> total_value,
                            opportunities |-> opportunities,
                            decisions |-> <<outcome.ret>>, raised |-> "none"]
        /\ UNCHANGED <<ledger, orchestrator, is_running, tasks, now,
                       initial_participants, min_spread_threshold>>

ReasonInit ==
    /\ Constructed(F(10), 0)
    /\ min_spread_threshold = DefaultMinSpreadThreshold

ReasonNext ==
    \E reply \in OracleReplies, total_value \in TotalValues, spreads \in ReasonLists :
        ReasonNode(reply, total_value, Observed(spreads))

ReasonSpec == ReasonInit /\ [][ReasonNext]_vars


(***************************************************************************)
(* Exact arithmetic for the properties: floats are dyadic rationals, so    *)
(* sums of them are compared as integers at a common exponent.             *)
(***************************************************************************)
\* x as an integer multiple of 2^e, for e no larger than the exponent of x
Scaled(x, e) == x[1] * 2^(x[2] - e)

\* the least exponent among the floats of a set
MinExponent(xs) == CHOOSE e \in {x[2] : x \in xs} : \A x \in xs : e <= x[2]

\* the sum of the floats in a set of <<key, float>> pairs, as a multiple of 2^e
RECURSIVE ScaledSum(_, _)
ScaledSum(pairs, e) ==
    IF pairs = {} THEN 0
    ELSE LET p == CHOOSE q \in pairs : TRUE
         IN  Scaled(p[2], e) + ScaledSum(pairs \ {p}, e)

Floats(pairs) == {p[2] : p \in pairs}

AssetValues == {<<i, assets[i].value>> : i \in 1..Len(assets)}

\* the participants that joined through add_participant: those after the seeded ones
Joined == {participant_order[i] : i \in (initial_participants + 1)..Len(participant_order)}

Deposits == {<<id, participants[id].initial_investment>> : id \in Joined}

Requests == {<<id, i>> : id \in DOMAIN participants, i \in 1..MaxRequests + 1}
                \cap UNION {{<<id, i>> : i \in 1..Len(participants[id].withdrawal_requests)} :
                               id \in DOMAIN participants}

Request(r) == participants[r[1]].withdrawal_requests[r[2]]

CompletedWithdrawals ==
    {<<r, Request(r).amount>> : r \in {q \in Requests : Request(q).status = "completed"}}

CurrentValues == {<<id, participants[id].current_value>> : id \in DOMAIN participants}

\* pool_value = cash_reserve + sum of the asset values
Balanced ==
    LET e == MinExponent({current_pool_value, cash_reserve} \cup Floats(AssetValues))
    IN  Scaled(current_pool_value, e) = Scaled(cash_reserve, e) + ScaledSum(AssetValues, e)

\* pool_value = initial_pool_value + deposits - completed withdrawals
Accounted ==
    LET e == MinExponent({current_pool_value, initial_pool_value}
                            \cup Floats(Deposits) \cup Floats(CompletedWithdrawals))
    IN  Scaled(current_pool_value, e) =
            Scaled(initial_pool_value, e) + ScaledSum(Deposits, e)
                - ScaledSum(CompletedWithdrawals, e)

\* the step is a mark: update_pool_value called directly or by a cycle that executed
MarkStep ==
    \/ call'.op = "update_pool_value"
    \/ /\ call'.op = "run_cycle"
       /\ call'.ret.status = "completed"
       /\ call'.ret.executions # <<>>

\* no cycle so far called the executor
NoExecutorCall ==
    \A i \in 1..Len(execution_history) : execution_history[i].executions = <<>>

ProcessStep == call'.op = "process_withdrawals"

\* the requests that are not completed, with their amounts
OpenWithdrawals ==
    {<<r, Request(r).amount>> : r \in {q \in Requests : Request(q).status # "completed"}}

\* the requests that an earlier call of process_withdrawals marked delayed
DelayedRequests == {r \in Requests : Request(r).status = "delayed"}

\* cash_reserve covers all the open requests together
CashCoversOpen ==
    LET e == MinExponent({cash_reserve} \cup Floats(OpenWithdrawals))
    IN  ScaledSum(OpenWithdrawals, e) <= Scaled(cash_reserve, e)

(***************************************************************************)
(* C2. Withdrawal liveness: a call of process_withdrawals completes every  *)
(* request that the cash reserve covers, so after the call no request is   *)
(* left uncompleted whose amount the remaining cash_reserve still covers.  *)
(* A request marked delayed is never taken up again, so this fails.        *)
(***************************************************************************)
C2_CoveredRequestsCompleted ==
    [][ProcessStep =>
          \A r \in Requests' :
              Request(r)'.status # "completed" => Lt(cash_reserve', Request(r)'.amount)]_vars

(***************************************************************************)
(* C3. Requeue: a request marked delayed is reconsidered by the next call  *)
(* of process_withdrawals; when cash_reserve covers all the open requests  *)
(* at that call, the delayed request is completed and its amount is taken  *)
(* from the participant's current_value.  The call only looks at requests  *)
(* with status pending, so this fails.                                     *)
(***************************************************************************)
C3_DelayedRequeued ==
    [][(ProcessStep /\ CashCoversOpen) =>
          \A r \in DelayedRequests :
              /\ Request(r)'.status = "completed"
              /\ Lt(participants'[r[1]].current_value, participants[r[1]].current_value)]_vars

\* x after the amounts of the requests that went from `before` to completed in `after`
\* have been subtracted from it, in the order of the queue from position i on
RECURSIVE LessCompleted(_, _, _, _)
LessCompleted(x, before, after, i) ==
    IF i > Len(before) THEN x
    ELSE LessCompleted(IF before[i].status # "completed" /\ after[i].status = "completed"
                       THEN Sub(x, before[i].amount) ELSE x,
                       before, after, i + 1)

\* the same over the queues of the participants ids, in that order
RECURSIVE LessAllCompleted(_, _, _, _)
LessAllCompleted(x, before, after, ids) ==
    IF ids = <<>> THEN x
    ELSE LessAllCompleted(
             LessCompleted(x, before[Head(ids)].withdrawal_requests,
                           after[Head(ids)].withdrawal_requests, 1),
             before, after, Tail(ids))

\* the entries with the given status in the list a call of process_withdrawals returned
Entries(ret, status) == {i \in 1..Len(ret) : ret[i].status = status}

\* the requests that are completed
CompletedRequests == {r \in Requests : Request(r).status = "completed"}

(***************************************************************************)
(* C4. No double-complete: a completed request stays as it is in every     *)
(* step; a call of process_withdrawals returns one entry for each request  *)
(* that was pending and none for a completed one, and what it takes from   *)
(* cash_reserve, pool_value and each participant's current_value is the    *)
(* amounts of the requests it moved to completed, each once.               *)
(***************************************************************************)
C4_NoDoubleComplete ==
    [][/\ \A r \in CompletedRequests : Request(r)' = Request(r)
       /\ ProcessStep =>
            /\ Len(call'.ret) = Cardinality({r \in Requests : Request(r).status = "pending"})
            /\ cash_reserve' =
                   LessAllCompleted(cash_reserve, participants, participants', participant_order)
            /\ current_pool_value' =
                   LessAllCompleted(current_pool_value, participants, participants',
                                    participant_order)
            /\ \A id \in DOMAIN participants :
                   participants'[id].current_value =
                       LessCompleted(participants[id].current_value,
                                     participants[id].withdrawal_requests,
                                     participants'[id].withdrawal_requests, 1)]_vars

\* a call of process_withdrawals completed a request while an earlier one was completed already
C4_Witness ==
    /\ call.op = "process_withdrawals"
    /\ Entries(call.ret, "completed") # {}
    /\ Cardinality(CompletedRequests) > Cardinality(Entries(call.ret, "completed"))

(***************************************************************************)
(* C5. Every participant's current_value is >= 0 after every operation.    *)
(* request_withdrawal compares the amount with current_value alone, so     *)
(* two queued requests, or a mark between request and processing, take     *)
(* more than the participant has.                                          *)
(***************************************************************************)
C5_ValuesNonNegative ==
    \A id \in DOMAIN participants : Leq(Zero, participants[id].current_value)

(***************************************************************************)
(* C6. The sum of the participants' current_value never exceeds            *)
(* pool_value.  The mark rounds new_value / old_value and then each        *)
(* product, and the rounding can go up, so this fails.                     *)
(***************************************************************************)
C6_ValuesWithinPool ==
    LET e == MinExponent({current_pool_value} \cup Floats(CurrentValues))
    IN  ScaledSum(CurrentValues, e) <= Scaled(current_pool_value, e)

\* cash_reserve >= 0
CashNonNegative == Leq(Zero, cash_reserve)

\* the step is a call of update_asset_allocation with assets worth more than the pool
OverAllocation ==
    /\ call'.op = "update_asset_allocation"
    /\ Lt(current_pool_value, SumValues(call'.assets))

(***************************************************************************)
(* C7. cash_reserve >= 0 after construction, and every step other than an  *)
(* update_asset_allocation whose assets are worth more than pool_value     *)
(* keeps it so: cash_reserve >= 0 in every state reached without such a    *)
(* call.                                                                   *)
(***************************************************************************)
C7_CashNonNegative ==
    /\ CashNonNegative
    /\ [][(CashNonNegative /\ ~OverAllocation) => CashNonNegative']_vars

\* a call of process_withdrawals paid one request and held back another for lack of cash
C7_Witness ==
    /\ call.op = "process_withdrawals"
    /\ Entries(call.ret, "completed") # {}
    /\ Entries(call.ret, "delayed") # {}
    /\ assets # <<>>
    /\ CashNonNegative

(***************************************************************************)
(* C8. Proportional mark: update_pool_value(new_value) sets pool_value to  *)
(* new_value; when the old pool value is > 0 every participant's           *)
(* current_value is multiplied by the one ratio new_value / old_value, and *)
(* when it is <= 0 every current_value is left as it is.  The mark of a    *)
(* cycle does the same.                                                    *)
(***************************************************************************)
C8_ProportionalMark ==
    [][/\ call'.op = "update_pool_value" => current_pool_value' = call'.new_value
       /\ MarkStep =>
            /\ DOMAIN participants' = DOMAIN participants
            /\ \A id \in DOMAIN participants :
                   participants'[id].current_value =
                       IF Lt(Zero, current_pool_value)
                       THEN Mul(participants[id].current_value,
                                Div(current_pool_value', current_pool_value))
                       ELSE participants[id].current_value]_vars

\* a mark from a positive pool value to another value has scaled a participant's value
C8_Witness ==
    /\ call.op = "update_pool_value"
    /\ Lt(Zero, call.old_value)
    /\ call.new_value # call.old_value
    /\ call.new_value = current_pool_value
    /\ \E id \in DOMAIN participants : Lt(Zero, participants[id].current_value)

\* the step is a cycle that executed trades and marked the pool
CycleMarkStep ==
    /\ call'.op = "run_cycle"
    /\ call'.ret.status = "completed"
    /\ call'.ret.executions # <<>>

(***************************************************************************)
(* C9. After a cycle that executed trades has marked the pool,             *)
(* pool_value = cash_reserve + sum of the asset values still holds.  The   *)
(* cycle adds the profit to pool_value alone, so this fails.               *)
(***************************************************************************)
C9_CycleMarkBalanced == [][(CycleMarkStep /\ Balanced) => Balanced']_vars

\* the step is a call of add_participant or request_withdrawal that is to be rejected
Rejection ==
    \/ /\ call'.op = "add_participant"
       /\ call'.participant_id \in DOMAIN participants
    \/ /\ call'.op = "request_withdrawal"
       /\ \/ call'.participant_id \notin DOMAIN participants
          \/ Lt(participants[call'.participant_id].current_value, call'.amount)

(***************************************************************************)
(* C10. A rejected request changes no state: add_participant with an id    *)
(* that exists, and request_withdrawal for an unknown participant or for   *)
(* more than the participant's current_value, return False and leave the   *)
(* pool value, the cash reserve, the participants and their withdrawal     *)
(* queues as they were.                                                    *)
(***************************************************************************)
C10_RejectionChangesNothing ==
    [][Rejection => (call'.ret = FALSE /\ ledger' = ledger)]_vars

\* request_withdrawal has turned down a known participant who asked for more than they have
C10_Witness ==
    /\ call.op = "request_withdrawal"
    /\ call.ret = FALSE
    /\ call.participant_id \in DOMAIN participants
    /\ Lt(participants[call.participant_id].current_value, call.amount)
    /\ Leq(call.amount, participants[call.participant_id].initial_investment)

(***************************************************************************)
(* Frame effects of the ledger operations.                                 *)
(***************************************************************************)
\* the step is a call of add_participant that returned True
AddStep == call'.op = "add_participant" /\ call'.ret = TRUE

\* the step is a call of request_withdrawal that returned True
RequestStep == call'.op = "request_withdrawal" /\ call'.ret = TRUE

(***************************************************************************)
(* C11. A successful add_participant(id, investment) creates the           *)
(* participant with current_value = initial_investment = investment and no *)
(* withdrawal requests, adds investment to pool_value and to cash_reserve, *)
(* and leaves every other participant as it was.                           *)
(***************************************************************************)
C11_AddEffect ==
    [][AddStep =>
          /\ call'.participant_id \notin DOMAIN participants
          /\ DOMAIN participants' = DOMAIN participants \cup {call'.participant_id}
          /\ participants'[call'.participant_id] =
                 [initial_investment |-> call'.investment,
                  current_value |-> call'.investment,
                  withdrawal_requests |-> <<>>]
          /\ current_pool_value' = Add(current_pool_value, call'.investment)
          /\ cash_reserve' = Add(cash_reserve, call'.investment)
          /\ \A id \in DOMAIN participants : participants'[id] = participants[id]]_vars

\* a participant has joined a pool in which another one has a request queued
C11_Witness ==
    /\ call.op = "add_participant"
    /\ call.ret = TRUE
    /\ participants[call.participant_id].current_value = call.investment
    /\ \E id \in DOMAIN participants : participants[id].withdrawal_requests # <<>>

(***************************************************************************)
(* C12. A successful request_withdrawal(id, amount) appends one request    *)
(* with status pending to the end of that participant's list and moves no  *)
(* money: pool_value, cash_reserve and every current_value are unchanged,  *)
(* and so is every other participant.                                      *)
(***************************************************************************)
C12_RequestEffect ==
    [][RequestStep =>
          /\ call'.participant_id \in DOMAIN participants
          /\ participants'[call'.participant_id].withdrawal_requests =
                 Append(participants[call'.participant_id].withdrawal_requests,
                        [amount |-> call'.amount, status |-> "pending"])
          /\ current_pool_value' = current_pool_value
          /\ cash_reserve' = cash_reserve
          /\ DOMAIN participants' = DOMAIN participants
          /\ \A id \in DOMAIN participants :
                 /\ participants'[id].current_value = participants[id].current_value
                 /\ participants'[id].initial_investment = participants[id].initial_investment
                 /\ id # call'.participant_id => participants'[id] = participants[id]]_vars

\* a request has been queued behind an earlier one of the same participant
C12_Witness ==
    /\ call.op = "request_withdrawal"
    /\ call.ret = TRUE
    /\ Len(participants[call.participant_id].withdrawal_requests) >= 2
    /\ participants[call.participant_id].withdrawal_requests[
           Len(participants[call.participant_id].withdrawal_requests)].status = "pending"

\* the pending requests <<id, position>> in the order of the pass: the participants ids in
\* that order, each one's queue from the front
RECURSIVE VisitOrder(_, _)
VisitOrder(parts, ids) ==
    IF ids = <<>> THEN <<>>
    ELSE LET queue == parts[Head(ids)].withdrawal_requests
             pending == SelectSeq([i \in 1..Len(queue) |-> i],
                                  LAMBDA i : queue[i].status = "pending")
         IN  [k \in 1..Len(pending) |-> <<Head(ids), pending[k]>>]
                 \o VisitOrder(parts, Tail(ids))

\* the cash left once the first k entries of a returned list have been paid or held back
RECURSIVE CashAfterEntries(_, _, _)
CashAfterEntries(cash, ret, k) ==
    IF k = 0 THEN cash
    ELSE IF ret[k].status = "completed"
         THEN Sub(CashAfterEntries(cash, ret, k - 1), ret[k].amount)
         ELSE CashAfterEntries(cash, ret, k - 1)

(***************************************************************************)
(* C13. process_withdrawals visits the participants in insertion order and *)
(* each one's pending requests in the order they were made.  The list it   *)
(* returns has one entry for each pending request, in that order, with the *)
(* status the request ends with: completed if the cash left at that point  *)
(* covers the amount, delayed otherwise, and a delayed request does not    *)
(* stop the pass.                                                          *)
(***************************************************************************)
C13_VisitingOrder ==
    [][ProcessStep =>
          LET visit == VisitOrder(participants, participant_order)
              ret == call'.ret
          IN  /\ Len(ret) = Len(visit)
              /\ \A k \in 1..Len(visit) :
                     /\ ret[k].participant_id = visit[k][1]
                     /\ ret[k].amount = Request(visit[k]).amount
                     /\ ret[k].status =
                            participants'[visit[k][1]].withdrawal_requests[visit[k][2]].status
                     /\ ret[k].status =
                            IF Leq(ret[k].amount, CashAfterEntries(cash_reserve, ret, k - 1))
                            THEN "completed" ELSE "delayed"]_vars

\* a pass held back a request and went on to the next one
C13_Witness ==
    /\ call.op = "process_withdrawals"
    /\ \E k \in 1..Len(call.ret) : call.ret[k].status = "delayed" /\ k < Len(call.ret)

(***************************************************************************)
(* The detector.                                                           *)
(***************************************************************************)
\* the last call was a scan, and call.ret is what it returned
Scanned == call.op = "scan_for_opportunities"

\* the last call was the filter
Filtered == call.op = "filter_opportunities"

(***************************************************************************)
(* C14. Detector soundness: every opportunity a scan returns has           *)
(* sell_price > buy_price, buy venue # sell venue and spread_pct above the *)
(* configured threshold.  Nothing but the threshold test stands for        *)
(* sell_price > buy_price, so under a negative threshold this fails.       *)
(***************************************************************************)
C14_Soundness ==
    Scanned =>
        \A k \in 1..Len(call.ret) :
            /\ Lt(call.ret[k].buy_price, call.ret[k].sell_price)
            /\ call.ret[k].buy_exchange # call.ret[k].sell_exchange
            /\ Lt(min_spread_threshold, call.ret[k].spread_pct)

\* the venues of a symbol's entry that quote the given side with a price above 0
Quoting(entry, side) ==
    {i \in 1..Len(entry.exchanges_data) :
        /\ side \in DOMAIN entry.exchanges_data[i].prices
        /\ Lt(Zero, entry.exchanges_data[i].prices[side])}

\* the opportunity of buying on venue b of a symbol's entry and selling on venue v
Crossing(entry, b, v) ==
    LET buy == entry.exchanges_data[b]
        sell == entry.exchanges_data[v]
    IN  [symbol |-> entry.symbol,
         buy_exchange |-> buy.exchange,
         sell_exchange |-> sell.exchange,
         buy_price |-> buy.prices.ask,
         sell_price |-> sell.prices.bid,
         spread_pct |-> Mul(Div(Sub(sell.prices.bid, buy.prices.ask), buy.prices.ask), F(100)),
         max_volume_usd |->
             Mul(IF Lt(Volume(buy.prices), Volume(sell.prices))
                 THEN Volume(buy.prices) ELSE Volume(sell.prices),
                 buy.prices.ask)]

\* every crossing of a snapshot whose spread_pct is above the threshold
Crossings(market_data, threshold) ==
    UNION {{Crossing(market_data[n], b, v) :
               <<b, v>> \in {bv \in Quoting(market_data[n], "ask")
                                        \X Quoting(market_data[n], "bid") :
                                /\ bv[1] # bv[2]
                                /\ Lt(threshold,
                                      Crossing(market_data[n], bv[1], bv[2]).spread_pct)}} :
           n \in 1..Len(market_data)}

(***************************************************************************)
(* C15. Detector completeness: a scan returns exactly one opportunity for  *)
(* each (symbol, buy venue, sell venue) with different venues whose        *)
(* spread_pct = 100 * (bid - ask) / ask is above the threshold, with       *)
(* buy_price the ask, sell_price the bid and max_volume_usd the smaller    *)
(* volume times the ask, and nothing else.                                 *)
(***************************************************************************)
C15_Completeness ==
    Scanned =>
        /\ {call.ret[k] : k \in 1..Len(call.ret)} =
               Crossings(call.market_data, min_spread_threshold)
        /\ Len(call.ret) = Cardinality(Crossings(call.market_data, min_spread_threshold))

\* a scan of two symbols, one of them with nothing to offer, found several opportunities
C15_Witness ==
    /\ Scanned
    /\ Len(call.market_data) = 2
    /\ Len(call.ret) >= 2
    /\ \E n \in 1..2 : \A k \in 1..Len(call.ret) : call.ret[k].symbol # call.market_data[n].symbol

(***************************************************************************)
(* C16. Detector ranking: the list a scan returns is non-increasing in     *)
(* profit_pct = spread_pct - 0.2, across all symbols.                      *)
(***************************************************************************)
C16_Ranking ==
    Scanned =>
        \A k \in 1..(Len(call.ret) - 1) :
            Leq(Sub(call.ret[k + 1].spread_pct, EstimatedFeesPct),
                Sub(call.ret[k].spread_pct, EstimatedFeesPct))

\* the scan moved a more profitable opportunity of a later symbol to the front
C16_Witness ==
    /\ Scanned
    /\ Len(call.ret) >= 2
    /\ Len(call.market_data) = 2
    /\ call.ret[1].symbol = call.market_data[2].symbol
    /\ Lt(ProfitPct(call.ret[Len(call.ret)]), ProfitPct(call.ret[1]))

\* the place of a symbol and of a venue in ascending order of their names
SymbolRank(symbol) == IF symbol = "BTC/USDT" THEN 1 ELSE 2

VenueRank(exchange) ==
    IF exchange = "binance" THEN 1 ELSE IF exchange = "coinbase" THEN 2 ELSE 3

(***************************************************************************)
(* C17. Detector determinism on ties: opportunities with equal profit_pct  *)
(* come out of a scan ordered by symbol ascending and then by buy venue    *)
(* ascending.  The sort has profit_pct as its only key and is stable, so   *)
(* ties stay in the order the snapshot stores them, and this fails.        *)
(***************************************************************************)
C17_TiesOrdered ==
    Scanned =>
        \A k \in 1..(Len(call.ret) - 1) :
            ProfitPct(call.ret[k]) = ProfitPct(call.ret[k + 1]) =>
                \/ SymbolRank(call.ret[k].symbol) < SymbolRank(call.ret[k + 1].symbol)
                \/ /\ call.ret[k].symbol = call.ret[k + 1].symbol
                   /\ VenueRank(call.ret[k].buy_exchange)
                          <= VenueRank(call.ret[k + 1].buy_exchange)

\* the positions of the entries of a list that are at or above both floors
Passing(opportunities, min_profit_pct, min_volume_usd) ==
    {i \in 1..Len(opportunities) :
        /\ ~Lt(ProfitPct(opportunities[i]), min_profit_pct)
        /\ ~Lt(opportunities[i].max_volume_usd, min_volume_usd)}

(***************************************************************************)
(* C18. The filter returns exactly the entries with profit_pct >=          *)
(* min_profit_pct and max_volume_usd >= min_volume_usd, in their original  *)
(* relative order: its k-th entry is the k-th entry of the list that is at *)
(* or above both floors.                                                   *)
(***************************************************************************)
C18_FilterExact ==
    Filtered =>
        LET passing == Passing(call.opportunities, call.min_profit_pct, call.min_volume_usd)
        IN  /\ Len(call.ret) = Cardinality(passing)
            /\ \A i \in passing :
                   call.ret[Cardinality({j \in passing : j <= i})] = call.opportunities[i]

\* the filter dropped the first entry for its volume and kept a later one
C18_Witness ==
    /\ Filtered
    /\ call.ret # <<>>
    /\ call.ret[1] # call.opportunities[1]
    /\ Lt(call.opportunities[1].max_volume_usd, call.min_volume_usd)

\* the step is a cycle that got as far as asking the risk oracle
AssessedStep == call'.op = "run_cycle" /\ "risk_reply" \in DOMAIN call'

\* the last call was a cycle that got as far as asking the risk oracle
AssessedCycle == call.op = "run_cycle" /\ "risk_reply" \in DOMAIN call

(***************************************************************************)
(* C19. Risk veto: a cycle has executions only if its risk assessment      *)
(* carries a score <= 7; when the score is above 7 the cycle returns       *)
(* status completed with an empty executions list and leaves pool_value    *)
(* as it was.                                                              *)
(***************************************************************************)
C19_RiskVeto ==
    [][AssessedStep =>
        LET risk_assessment == call'.ret.risk_assessment
        IN  /\ call'.ret.executions # <<>> =>
                   /\ "risk_score" \in DOMAIN risk_assessment
                   /\ risk_assessment.risk_score <= 7
            /\ ("risk_score" \in DOMAIN risk_assessment
                    /\ risk_assessment.risk_score > 7) =>
                   /\ call'.ret.status = "completed"
                   /\ call'.ret.executions = <<>>
                   /\ current_pool_value' = current_pool_value]_vars

\* a cycle whose proposal was scored 9 ended completed without executions
C19_Witness ==
    /\ AssessedCycle
    /\ "risk_score" \in DOMAIN call.ret.risk_assessment
    /\ call.ret.risk_assessment.risk_score = 9
    /\ call.ret.status = "completed"
    /\ call.ret.executions = <<>>

\* the oracle call failed: a transport or HTTP error, a reply without a tool
\* call, or tool arguments that do not parse
OracleFailed(reply) ==
    \/ "error" \in DOMAIN reply
    \/ "tool_calls" \notin DOMAIN reply.choices[1].message
    \/ ~reply.choices[1].message.tool_calls[1].function.arguments.json

(***************************************************************************)
(* C20. Whenever the risk oracle call of a cycle fails, the assessment the *)
(* cycle uses has score 5 with the unable-to-assess recommendation.  On a  *)
(* transport or HTTP error assess_risk returns only the error, the cycle   *)
(* reads an empty assessment and takes the missing score as 10, so this    *)
(* fails.                                                                  *)
(***************************************************************************)
C20_UsableAssessment ==
    [][(AssessedStep /\ OracleFailed(call'.risk_reply)) =>
        LET risk_assessment == call'.ret.risk_assessment
        IN  /\ DOMAIN risk_assessment = {"risk_score", "recommendation"}
            /\ risk_assessment.risk_score = 5
            /\ risk_assessment.recommendation
                   = "Unable to properly assess risk due to error"]_vars

\* the step is a cycle that got as far as asking the strategy oracle
StrategyStep == call'.op = "run_cycle" /\ "strategy_reply" \in DOMAIN call'

\* the last call was a cycle that got as far as asking the strategy oracle
StrategyCycle == call.op = "run_cycle" /\ "strategy_reply" \in DOMAIN call

\* the strategy oracle call failed: an error or timeout, or unusable output
StrategyFailed(reply) ==
    \/ "error" \in DOMAIN reply
    \/ "tool_calls" \notin DOMAIN reply.choices[1].message
    \/ ~reply.choices[1].message.tool_calls[1].function.arguments.json

(***************************************************************************)
(* C21. A cycle whose strategy oracle call failed does not end with status *)
(* error: it completes, with a fallback proposal that selects from the     *)
(* non-empty opportunity list.  run_cycle returns status error when the    *)
(* oracle call returns an error, and proceeds with an empty strategy when  *)
(* the output is unusable, so this fails.                                  *)
(***************************************************************************)
C21_StrategyFailureRecovered ==
    [][(StrategyStep /\ StrategyFailed(call'.strategy_reply)) =>
        /\ call'.ret.status = "completed"
        /\ call'.ret.strategy.selected_opportunities # <<>>]_vars

\* the strategy that the oracle's tool call carries
Proposed(reply) == reply.choices[1].message.tool_calls[1].function.arguments.value

\* the validation the oracle's proposal is to pass for a list of count
\* opportunities: indices in range and unique, sizes non-negative, equal lengths
ValidProposal(strategy, count) ==
    /\ Len(strategy.selected_opportunities) = Len(strategy.position_sizes)
    /\ \A i \in DOMAIN strategy.selected_opportunities :
           /\ strategy.selected_opportunities[i] \in 0..(count - 1)
           /\ \A j \in DOMAIN strategy.selected_opportunities :
                  strategy.selected_opportunities[i] = strategy.selected_opportunities[j]
                      => i = j
    /\ \A i \in DOMAIN strategy.position_sizes :
           ~Lt(strategy.position_sizes[i], Zero)

(***************************************************************************)
(* C22. A cycle whose oracle proposal fails the validation (an index out   *)
(* of range or negative, a repeated index, a negative size, lists of       *)
(* different lengths) executes no part of that proposal.  run_cycle has no *)
(* validation: it skips the entries its loop cannot use and executes the   *)
(* others, so this fails.                                                  *)
(***************************************************************************)
C22_InvalidProposalNotExecuted ==
    [][(/\ StrategyStep
        /\ ~StrategyFailed(call'.strategy_reply)
        /\ ~ValidProposal(Proposed(call'.strategy_reply),
                          call'.ret.opportunities_filtered))
          => call'.ret.executions = <<>>]_vars

\* trading_config["max_position_size_pct"], the default of MAX_POSITION_SIZE_PCT
MaxPositionSizePct == Div(F(1), F(10))

(***************************************************************************)
(* C25. Every execution of a cycle has position_size_usd <=                *)
(* MAX_POSITION_SIZE_PCT * pool_value, the pool value being the one the    *)
(* cycle started with.  run_cycle hands the proposal's sizes to the        *)
(* executor as they are, so this fails.                                    *)
(***************************************************************************)
C25_ExecutionsCapped ==
    [][(StrategyStep /\ call'.ret.status = "completed") =>
        \A k \in DOMAIN call'.ret.executions :
            Leq(call'.ret.executions[k].position_size_usd,
                Mul(current_pool_value, MaxPositionSizePct))]_vars

\* the positions of a proposal that name an opportunity of the list and
\* carry a positive size
Usable(strategy, count) ==
    {i \in DOMAIN strategy.selected_opportunities :
        /\ strategy.selected_opportunities[i] < count
        /\ i <= Len(strategy.position_sizes)
        /\ Lt(Zero, strategy.position_sizes[i])}

(***************************************************************************)
(* C29. Executions are independent within a cycle: a cycle that passed the *)
(* risk gate ends with status completed and has one execution record for   *)
(* every selected opportunity it can use, whether or not an earlier        *)
(* execution of the cycle lost money; the losing one is kept with success  *)
(* false.                                                                  *)
(***************************************************************************)
C29_ExecutionsIndependent ==
    [][(/\ StrategyStep
        /\ ~StrategyFailed(call'.strategy_reply)
        /\ "risk_reply" \in DOMAIN call'
        /\ call'.ret.risk_assessment.risk_score <= 7)
          => /\ call'.ret.status = "completed"
             /\ Len(call'.ret.executions)
                    = Cardinality(Usable(call'.ret.strategy,
                                         call'.ret.opportunities_filtered))
             /\ \A k \in DOMAIN call'.ret.executions :
                    Leq(call'.ret.executions[k].profit_usd, Zero)
                        => ~call'.ret.executions[k].success]_vars

\* a cycle whose first execution lost money and whose second one made a profit
C29_Witness ==
    /\ StrategyCycle
    /\ call.ret.status = "completed"
    /\ Len(call.ret.executions) = 2
    /\ Lt(call.ret.executions[1].profit_usd, Zero)
    /\ ~call.ret.executions[1].success
    /\ call.ret.executions[2].success

\* the step is a call of run_cycle
CycleStep == call'.op = "run_cycle" /\ now' # now

(***************************************************************************)
(* C30. Every cycle that is run, whether it returns status completed or    *)
(* status error, appends exactly one record, the one it returns, to the    *)
(* history.  run_cycle returns the error record of a failed strategy call  *)
(* before it reaches the append, so this fails.                            *)
(***************************************************************************)
C30_EveryCycleRecorded ==
    [][CycleStep => execution_history' = Append(execution_history, call'.ret)]_vars

\* the last call was calculate_position_size
Sized == call.op = "calculate_position_size"

\* the last call was execute_arbitrage
Traded == call.op = "execute_arbitrage"

FeePct == Div(EstimatedFeesPct, F(100))

(***************************************************************************)
(* C27. With both slippage draws 0, the execution record has profit_usd =  *)
(* size_usd * spread_pct / 100 * (1 - fee_pct).  execute_arbitrage has no  *)
(* fee term: its profit is size_usd * spread_pct / 100, so this fails.     *)
(***************************************************************************)
C27_ZeroSlippageIdentity ==
    (Traded /\ call.buy_slippage_pct = Zero /\ call.sell_slippage_pct = Zero) =>
        call.ret.profit_usd
            = Mul(Mul(call.position_size_usd,
                      Div(call.opportunity.spread_pct, F(100))),
                  Sub(F(1), FeePct))

\* the worst slippage the executor draws, as a fraction
WorstSlippage == Div(Div(F(1), F(5)), F(100))

\* the opportunity stays profitable under the worst slippage on both sides
Robust(opportunity) ==
    Lt(Mul(opportunity.buy_price, Add(F(1), WorstSlippage)),
       Mul(opportunity.sell_price, Sub(F(1), WorstSlippage)))

(***************************************************************************)
(* C28. Every execution record has profit_usd = revenue_usd - cost_usd,    *)
(* success = (profit_usd > 0) and the position_size_usd that was passed    *)
(* in; an opportunity with sell_price * (1 - 0.002) > buy_price *          *)
(* (1 + 0.002) executes with profit_usd > 0 and success true under every   *)
(* pair of draws.                                                          *)
(***************************************************************************)
C28_SuccessIsProfit ==
    Traded =>
        /\ call.ret.profit_usd = Sub(call.ret.revenue_usd, call.ret.cost_usd)
        /\ call.ret.success = Lt(Zero, call.ret.profit_usd)
        /\ call.ret.position_size_usd = call.position_size_usd
        /\ Robust(call.opportunity) =>
               Lt(Zero, call.ret.profit_usd) /\ call.ret.success

\* an opportunity that stays profitable executed under the worst draws
C28_Witness ==
    /\ Traded
    /\ call.buy_slippage_pct = Div(F(1), F(5))
    /\ call.sell_slippage_pct = Div(F(1), F(5))
    /\ Robust(call.opportunity)
    /\ call.ret.success

\* the last call was _fallback_strategy
FellBack == call.op = "_fallback_strategy"

\* the number of opportunities and the share of the pool that the fallback
\* is to use for a pool value
Tier(pool_value) ==
    IF Lt(pool_value, F(10000)) THEN [k |-> 1, pct |-> Div(F(1), F(50))]
    ELSE IF Lt(pool_value, F(100000)) THEN [k |-> 3, pct |-> Div(F(1), F(20))]
    ELSE [k |-> 5, pct |-> Div(F(1), F(10))]

\* the smaller of two numbers
Least(a, b) == IF a < b THEN a ELSE b

(***************************************************************************)
(* C23. For a non-empty opportunity list the fallback selects min(k,       *)
(* number of opportunities) distinct entries, none of them with a smaller  *)
(* spread than an entry it leaves out, with k = 1 below 10000, 3 below     *)
(* 100000 and 5 otherwise; every selected entry gets the same size, 2 %,   *)
(* 5 % and 10 % of pool_value divided by the number selected; and the      *)
(* proposal is flagged as fallback.                                        *)
(***************************************************************************)
C23_FallbackSizing ==
    FellBack =>
        LET tier == Tier(call.total_value)
            count == Least(tier.k, Len(call.opportunities))
            selected == call.ret.selected_opportunities
        IN  /\ Len(selected) = count
            /\ Len(call.ret.position_sizes) = count
            /\ \A i \in 1..count : selected[i] \in 0..(Len(call.opportunities) - 1)
            /\ \A i, j \in 1..count : selected[i] = selected[j] => i = j
            /\ \A i \in 1..count : \A j \in 1..Len(call.opportunities) :
                   (\A h \in 1..count : selected[h] # j - 1) =>
                       Leq(call.opportunities[j].spread_percent,
                           call.opportunities[selected[i] + 1].spread_percent)
            /\ \A i \in 1..count :
                   call.ret.position_sizes[i]
                       = Div(Mul(call.total_value, tier.pct), F(count))
            /\ call.ret.fallback

\* a pool in the middle tier with two opportunities: both are selected
C23_Witness ==
    /\ FellBack
    /\ call.total_value = F(50000)
    /\ Len(call.opportunities) = 2
    /\ Len(call.ret.selected_opportunities) = 2
    /\ call.ret.position_sizes[1] = call.ret.position_sizes[2]

(***************************************************************************)
(* C24. In every fallback proposal each position size is <= the volume     *)
(* available for the opportunity it is assigned to.  _fallback_strategy    *)
(* divides the pool's share among the selected entries and never looks at  *)
(* the volume, so this fails.                                              *)
(***************************************************************************)
C24_FallbackWithinVolume ==
    FellBack =>
        \A i \in DOMAIN call.ret.selected_opportunities :
            Leq(call.ret.position_sizes[i],
                call.opportunities[call.ret.selected_opportunities[i] + 1].volume_available)

\* C31: the history is a bounded ring: it never holds more than
\* HistoryCapacity records, they are the most recent cycles in the order of
\* their appends, and get_status reports the last RecentCount of them, or all
\* of them when there are fewer
C31_HistoryBoundedRing ==
    LET h == execution_history
        kept == IF now < HistoryCapacity THEN now ELSE HistoryCapacity
    IN  /\ Len(h) <= HistoryCapacity
        /\ Len(h) = kept
        /\ \A i \in 1..Len(h) : h[i].cycle_id = now - kept + i - 1
        /\ call.op = "get_status" =>
               LET recent == call.ret.recent_executions
                   shown == IF Len(h) < RecentCount THEN Len(h) ELSE RecentCount
               IN  /\ Len(recent) = shown
                   /\ call.ret.execution_count = Len(h)
                   /\ \A j \in 1..shown : recent[j] = h[Len(h) - shown + j]

\* the status of a history from which the oldest records have been dropped
C31_Witness ==
    /\ call.op = "get_status"
    /\ Len(execution_history) = HistoryCapacity
    /\ execution_history[1].cycle_id > 0
    /\ Len(call.ret.recent_executions) = RecentCount

\* a step in which a task of the continuous loop runs a cycle
LoopTurn == now' # now /\ (is_running \/ tasks' # tasks)

\* a step in which run_single_cycle runs a cycle
AcceptedSingle == now' # now /\ ~LoopTurn

\* the tasks whose loop has not exited
Live(ts) == {t \in DOMAIN ts : ts[t] # "done"}

\* the cycle of the last call ended in error: an error result or an exception
FailedCycle ==
    /\ call.op = "run_cycle"
    /\ \/ "raised" \in DOMAIN call
       \/ call.ret.status = "error"

\* C32: a cycle of the loop that ends in error, as an error result or as an
\* exception, leaves the running flag set and its loop alive for the next cycle
C32_FailedCycleKeepsLoop ==
    [][(LoopTurn /\ FailedCycle') => (is_running' /\ Live(tasks') = Live(tasks))]_vars

\* C33: run_single_cycle runs a cycle only when no continuous loop is
\* active: none waiting to begin after Start was acknowledged, none that has
\* still to exit after Stop
C33_SingleCycleExcluded ==
    [][AcceptedSingle => Live(tasks) = {}]_vars

\* C34: at most one continuous loop exists at any time
C34_AtMostOneLoop == Cardinality(Live(tasks)) <= 1

\* C35: once Stop has been accepted and no request has followed it, no task
\* of the loop starts a new cycle
C35_NoCycleAfterStop ==
    [][(call.op = "stop_system" /\ call.ret = "PoolMind system stopped")
          => ~LoopTurn]_vars

\* the last call evaluated the breaker
Evaluated == call.op = "_should_trigger_circuit_breaker"

\* the operations counted by the engine of the last call
Operations == call.metrics.opportunities_detected + call.metrics.opportunities_executed

\* C36: the breaker trips exactly when at least 10 operations were counted
\* and errors / operations > 15 %, or at least one execution was counted and
\* fallback activations / executions > 30 %, or the drawdown
\* (initial - current) / initial > 15 %
C36_BreakerTripsExactly ==
    Evaluated =>
        (call.ret <=>
            \/ Operations >= 10 /\ 100 * call.metrics.error_count > 15 * Operations
            \/ /\ call.metrics.opportunities_executed >= 1
               /\ 10 * call.metrics.fallback_activations
                      > 3 * call.metrics.opportunities_executed
            \/ 100 * (call.initial_value - call.total_value) > 15 * call.initial_value)

\* a step in which the trading loop starts a cycle
CycleStarted == engine.at = "loop" /\ engine'.at \in {"waiting", "paused"}

\* C37: once the breaker has tripped after a cycle, the next cycle starts
\* only when the whole cool-down has elapsed, and unless the engine is
\* stopped the loop comes back to its head by itself
C37_CoolDownThenResume ==
    /\ [][(CycleStarted /\ call.op = "run_trading_cycle" /\ call.tripped)
             => engine.elapsed >= CoolDown]_vars
    /\ (engine.at = "paused") ~> (engine.at = "loop" \/ ~engine.running)

\* the loop back at its head, still running, after a cool-down
C37_Witness ==
    /\ call.op = "run_trading_cycle"
    /\ call.tripped
    /\ engine.at = "loop"
    /\ engine.running
    /\ engine.elapsed = CoolDown

\* a cycle result that had nothing to execute: no opportunity passed the
\* filter, the proposal selects nothing, every size of the proposal is zero,
\* or the risk score is above the threshold
NothingToExecute(ret) ==
    /\ "opportunities_filtered" \in DOMAIN ret
    /\ \/ ret.opportunities_filtered = 0
       \/ /\ "strategy" \in DOMAIN ret
          /\ \/ ret.strategy.selected_opportunities = <<>>
             \/ \A i \in DOMAIN ret.strategy.position_sizes :
                    ret.strategy.position_sizes[i] = Zero
             \/ RiskScore(ret.risk_assessment) > RiskThreshold

\* C38: a cycle with nothing to execute ends with status completed and no
\* executions, and leaves the pool value, the cash reserve, every
\* participant's current value and every withdrawal request as they were
C38_NoExecutionLeavesLedger ==
    [][(CycleStep /\ NothingToExecute(call'.ret)) =>
        /\ call'.ret.status = "completed"
        /\ call'.ret.executions = <<>>
        /\ current_pool_value' = current_pool_value
        /\ cash_reserve' = cash_reserve
        /\ DOMAIN participants' = DOMAIN participants
        /\ \A id \in DOMAIN participants :
               /\ participants'[id].current_value = participants[id].current_value
               /\ participants'[id].withdrawal_requests
                      = participants[id].withdrawal_requests]_vars

\* a cycle whose proposal had only sizes of zero, run on a pool with a
\* pending withdrawal request
C38_Witness ==
    /\ call.op = "run_cycle"
    /\ NothingToExecute(call.ret)
    /\ "strategy" \in DOMAIN call.ret
    /\ call.ret.strategy.position_sizes = <<Zero, Zero>>
    /\ \E id \in DOMAIN participants : participants[id].withdrawal_requests # <<>>

\* the amounts of the entries a call of process_withdrawals returned as completed
CompletedEntries(ret) == {<<k, ret[k].amount>> : k \in Entries(ret, "completed")}

OracleFailedInReason ==
    /\ call.op = "reason_node"
    /\ call.reply # "strategy"

\* C40: whenever the oracle call of the reason step fails, the rule-based
\* fallback returns a proposal and nothing is raised: the reason step has one
\* decision, a fallback proposal, whose index and size lists are empty when
\* the opportunity list is empty
C40_FallbackNeverRaises ==
    OracleFailedInReason =>
        /\ call.raised = "none"
        /\ Len(call.decisions) = 1
        /\ "fallback" \in DOMAIN call.decisions[1]
        /\ (call.opportunities = <<>> =>
                /\ call.decisions[1].selected_opportunities = <<>>
                /\ call.decisions[1].position_sizes = <<>>)

=============================================================================
